---- MODULE Spec2Model ----
(***************************************************************************)
(* Verification model of pyLBL: the spectral-line engine of                *)
(* pyLBL/spectral_lines.py, the TIPS interpolator of pyLBL/tips.py and the *)
(* orchestration of pyLBL/high_level_api.py.                               *)
(*                                                                         *)
(* Numbers.  A float is modelled as an exact rational <<n, d>> with d > 0  *)
(* in lowest terms; <<0, 0>> (NaN) stands for every non-finite IEEE value  *)
(* (nan, inf).  Rounding is not modelled.  numpy arrays are sequences; the *)
(* Python index i is the sequence index i + 1.                             *)
(*                                                                         *)
(* Transcendental functions (exp, sqrt, wofz) have no integer form; each   *)
(* is replaced by a rational stand-in that keeps its sign, its zeros and   *)
(* its monotonic direction.  The stand-ins are marked where they occur.    *)
(***************************************************************************)
EXTENDS Integers, Sequences, FiniteSets, TLC

(***************************************************************************)
(* Bounds of the model.                                                    *)
(***************************************************************************)
MaxLines == 2

MaxNodes == 3

MaxGases == 2

MaxPoints == 2

MaxCalls == 2

(* Frequencies of a cross-section band.                                    *)
MaxFreq == 3

(* Bands of a continuum.                                                   *)
MaxBands == 2

(* Points of a grid handed to the lines engine of c_lib.                   *)
MaxGridPoints == 4

(***************************************************************************)
(* Program constants.                                                      *)
(***************************************************************************)
reference_temperature == 296

TIPS_REFERENCE_TEMPERATURE == 296

CutOffDefault == 25

(* pa_to_atm = 9.86923e-6 [atm Pa-1], the reciprocal of 101325 Pa per atm.  *)
pa_to_atm == <<1, 101325>>

(* cm_to_m = 0.01 as a rational.                                           *)
cm_to_m == <<1, 100>>

(***************************************************************************)
(* Exact rational arithmetic with a NaN element.                           *)
(***************************************************************************)
NaN == <<0, 0>>

IsNaN(x) == x[2] = 0

Abs(n) == IF n < 0 THEN -n ELSE n

RECURSIVE GCD(_, _)
GCD(a, b) == IF b = 0 THEN a ELSE GCD(b, a % b)

Rat(n, d) ==
    IF d = 0 THEN NaN
    ELSE IF d = 1 THEN <<n, 1>>
    ELSE LET g == GCD(Abs(n), Abs(d))
             sgn == IF d < 0 THEN -1 ELSE 1
         IN  <<sgn * (n \div g), sgn * (d \div g)>>

I(n) == <<n, 1>>

Zero == I(0)

RAdd(x, y) ==
    IF IsNaN(x) \/ IsNaN(y) THEN NaN
    ELSE IF x[2] = 1 /\ y[2] = 1 THEN <<x[1] + y[1], 1>>
    ELSE LET g == GCD(x[2], y[2])
         IN  Rat(x[1] * (y[2] \div g) + y[1] * (x[2] \div g), x[2] * (y[2] \div g))

RNeg(x) == IF IsNaN(x) THEN NaN ELSE <<-x[1], x[2]>>

RSub(x, y) == RAdd(x, RNeg(y))

RMul(x, y) ==
    IF IsNaN(x) \/ IsNaN(y) THEN NaN
    ELSE IF x[2] = 1 /\ y[2] = 1 THEN <<x[1] * y[1], 1>>
    ELSE LET g1 == GCD(Abs(x[1]), y[2])
             g2 == GCD(Abs(y[1]), x[2])
         IN  Rat((x[1] \div g1) * (y[1] \div g2), (x[2] \div g2) * (y[2] \div g1))

(* IEEE division: a zero divisor gives a non-finite value, never an error. *)
RDiv(x, y) ==
    IF IsNaN(x) \/ IsNaN(y) \/ y[1] = 0 THEN NaN
    ELSE RMul(x, Rat(y[2], y[1]))

(* x < y for finite x and y; a comparison with NaN is false.               *)
RLess(x, y) == ~IsNaN(x) /\ ~IsNaN(y) /\ x[1] * y[2] < y[1] * x[2]

(* The smaller of two values: a NaN operand propagates.                    *)
RMin(x, y) ==
    IF IsNaN(x) \/ IsNaN(y) THEN NaN
    ELSE IF RLess(y, x) THEN y ELSE x

RECURSIVE RSumOver(_)
RSumOver(seq) == IF seq = <<>> THEN Zero ELSE RAdd(Head(seq), RSumOver(Tail(seq)))

(* Integer square root (floor).                                            *)
Isqrt(n) == CHOOSE r \in 0..n : r * r <= n /\ (r + 1) * (r + 1) > n

(***************************************************************************)
(* numpy indexing and searching.                                           *)
(***************************************************************************)
(* Subscripts without wrap-around of negative values.                      *)
NpIndexOk_no_wrap(idx, len) == idx >= 0 /\ idx < len

(* a[idx] for a one-dimensional array of length len: a negative idx counts *)
(* from the end, anything outside -len .. len-1 raises IndexError.         *)
NpIndexOk(idx, len) == idx >= -len /\ idx < len

NpIndex(a, idx) == a[(IF idx < 0 THEN idx + Len(a) ELSE idx) + 1]

(* numpy.searchsorted of the value x in the sorted integer array a.        *)
searchsorted(a, x, side) ==
    IF side = "left"
    THEN Cardinality({n \in 1..Len(a) : RLess(I(a[n]), x)})
    ELSE Cardinality({n \in 1..Len(a) : ~RLess(x, I(a[n]))})

zeros(n) == [g \in 1..n |-> Zero]

(***************************************************************************)
(* Bounded inputs.                                                         *)
(***************************************************************************)
(* Spectral grids [cm-1] as sets of wavenumbers: the full grid, the empty  *)
(* grid, a single point, two grids with a gap and a grid starting late.    *)
GridSets == {{0, 20, 40, 60}, {}, {0}, {0, 60}, {0, 80}, {40, 60}}

(* Transition records as the database hands them out (TransitionTable).    *)
Line(nu, sw, iso, elower, delta_air, n_air, gamma_air, gamma_self) ==
    [nu |-> nu, sw |-> sw, local_iso_id |-> iso, elower |-> elower,
     delta_air |-> delta_air, n_air |-> n_air, gamma_air |-> gamma_air,
     gamma_self |-> gamma_self]

Catalogue ==
    { Line(12, 2, 1, 0, 0, 1, 2, 4),
      Line(30, 4, 2, 148, -5, 0, 3, 1),
      Line(45, 2, 3, 0, 0, 1, 2, 2) }

RECURSIVE SeqsUpTo(_, _)
SeqsUpTo(S, n) ==
    IF n = 0 THEN {<<>>}
    ELSE LET shorter == SeqsUpTo(S, n - 1)
         IN  shorter \cup {Append(q, x) : q \in {r \in shorter : Len(r) = n - 1}, x \in S}

TransitionLists == SeqsUpTo(Catalogue, MaxLines)

(* Isotopologue mass tables [g mol-1]; the first has no entry for id 3.    *)
MassTables == {<<18, 20>>, <<18, 20, 19>>}

(* Temperatures [K]: below zero, zero, two table nodes, above the table.   *)
Temperatures == {-148, 0, 148, 296, 592}

(* Pressures [Pa].                                                         *)
Pressures == {-101325, 101325}

(* Volume mixing ratio of the gas [mol mol-1].                             *)
MixingRatios == {<<1, 2>>}

(* Inputs of compute_absorption: the gases of the atmosphere in the order  *)
(* of the dataset, the installed back-ends, the requested output.          *)
GasNames == {"H2O", "CO2", "CFC11"}

LinesBackends == {"pyLBL", "arts"}

ContinuaBackends == {"mt_ckd", "foreign_only"}

CrossSectionsBackends == {"arts_crossfit"}

(* Back-end names handed to Spectroscopy: the registered ones and one that *)
(* no registry knows.                                                      *)
BackendArguments(registered) == registered \cup {"foo"}

(* Spectral grids [cm-1] handed to Spectroscopy: unit spacing and a coarse *)
(* spacing.                                                                *)
SpectroscopyGrids == {<<1, 2>>, <<0, 20>>}

OutputFormats == {"all", "gas", "total"}

Mechanisms == <<"lines", "continuum", "cross_section">>

(* Partition-function tables of the table machine: two isotopologues, two  *)
(* to MaxNodes strictly increasing node temperatures.                      *)
NodeTemperatures == {2, 4, 6, 8}

QueryTemperatures == 0..10

QValues == {1, 3}

TipsIsotopologues == 2

(* The TIPS table of the molecule: temperatures and one row per            *)
(* isotopologue.                                                           *)
GasTips == [temperature |-> <<74, 148, 296>>,
            data |-> <<<<1, 2, 4>>, <<2, 4, 8>>, <<3, 6, 12>>>>]

RECURSIVE SortedSeq(_)
SortedSeq(S) ==
    IF S = {} THEN <<>>
    ELSE LET m == CHOOSE x \in S : \A y \in S : x <= y
         IN  <<m>> \o SortedSeq(S \ {m})

Grids == {SortedSeq(S) : S \in GridSets}

Distinct(seq) == \A a, b \in 1..Len(seq) : a # b => seq[a] # seq[b]

AtmosphereGasLists ==
    {seq \in SeqsUpTo(GasNames, MaxGases) : Len(seq) >= 1 /\ Distinct(seq)}

TipsTables ==
    UNION {{[temperature |-> SortedSeq(S), data |-> d] :
                d \in [1..TipsIsotopologues -> [1..Cardinality(S) -> QValues]]} :
           S \in {S \in SUBSET NodeTemperatures :
                      Cardinality(S) >= 2 /\ Cardinality(S) <= MaxNodes}}

(***************************************************************************)
(* State.                                                                  *)
(***************************************************************************)
VARIABLES
    pc,               \* position of the computation
    raised,           \* name of the exception that ended it, "" if none
    site,             \* function whose statement raised it, "" if none
    q,                \* TotalPartitionFunction: temperature, data
    mass,             \* Gas.mass
    transitions,      \* list of transition records
    s,                \* strengths handed to line_profile (Gas.s)
    t, p, vmr,        \* temperature [K], pressure [atm], mixing ratio
    python_float,     \* the temperature is a Python float, not a numpy scalar
    wavenumber,       \* spectral grid
    remove_pedestal,  \* flag of brute_force
    continuum_arg,    \* continuum argument of Gas.absorption_coefficient
    cut_off,          \* cut-off of brute_force
    center, strength, gamma, alpha,   \* arrays of brute_force
    left, right,      \* window bounds of brute_force
    i,                \* loop index of brute_force
    k,                \* accumulated output of brute_force
    result,           \* value returned to the caller
    iso_query,        \* isotopologue id of a partition-function query
    atmosphere_gases, \* Atmosphere.gases: names in the order of the dataset
    npoints,          \* number of atmospheric points (t.data.size)
    lines_backend,    \* Spectroscopy.lines_backend
    continua_backend, \* Spectroscopy.continua_backend
    cross_sections_backend, \* Spectroscopy.cross_sections_backend
    self_grid,        \* Spectroscopy.grid
    cache,            \* Spectroscopy.cache: name -> MoleculeCache
    output_format,    \* argument of compute_absorption
    remove_pedestal_arg, \* argument remove_pedestal of compute_absorption
    pedestal_flag,    \* remove_pedestal after lines 148-149
    beta,             \* beta of compute_absorption: name -> point -> mechanism
    gas_index,        \* position of the loop over the gases
    point,            \* position of the loop over the atmospheric points
    output,           \* Dataset returned by compute_absorption
    calls,            \* number of calls of compute_absorption so far
    unavailable,      \* history: <<name, mechanism>> pairs found unavailable
    constructions,    \* history: name -> number of MoleculeCache objects built
    coeffs,           \* fit coefficients of a band: four rows, one column per frequency
    xsec,             \* raw cross sections of calculate_xsec
    pressure_pa,      \* pressure [Pa] handed to a function
    bands,            \* BandedContinuum.bands: native grid and spectrum of each band
    target_grid,      \* spectral grid [cm-1] handed to a function
    dataset,          \* xarray Dataset: the attrs of its data variables, in order
    mapping,          \* argument mapping of Atmosphere
    stream,           \* bytes of the HTTP response, one character each
    block_size,       \* argument block_size of the line reader
    reader,           \* module of the line reader: "tips" or "tips_api"
    offset,           \* bytes of the response read so far
    record,           \* carry-over of the line reader
    reader_done,      \* the line reader has left its loop
    yielded,          \* lines the line reader has yielded so far
    molecule,         \* argument molecule of the TIPS table parser
    found_molecule,   \* found_molecule of the parser, as a truth value
    num_isotopologues, \* num_isotopologues of the parser
    rows,             \* rows the parser has yielded so far
    line_index,       \* lines the parser has taken from the line reader
    progress,         \* mechanisms computed so far for each (gas, point) pair
    all_molecules,    \* molecules of HITRAN with the way their downloads end
    molecules_arg,    \* argument molecules of Database.create
    mol_index,        \* molecules the loop of Database.create has worked on
    session,          \* objects added to the Session and not committed
    tables            \* rows of the database tables

linesState == <<mass, transitions, s, p, vmr, python_float, wavenumber,
                remove_pedestal, continuum_arg, cut_off, center, strength, gamma, alpha, left,
                right, i, k>>

absState == <<atmosphere_gases, npoints, lines_backend, continua_backend,
              cross_sections_backend, self_grid, cache, remove_pedestal_arg,
              output_format, pedestal_flag, beta, gas_index, point, output,
              calls, unavailable, constructions>>

funcState == <<coeffs, xsec, pressure_pa, bands, target_grid>>

readerState == <<stream, block_size, reader, offset, record, reader_done, yielded>>

parserState == <<molecule, found_molecule, num_isotopologues, rows, line_index>>

atmState == <<dataset, mapping>>

pairState == <<progress>>

databaseState == <<all_molecules, molecules_arg, mol_index, session, tables>>

ioState == <<atmState, readerState, parserState, pairState, databaseState>>

vars == <<pc, raised, site, q, t, result, iso_query, linesState, absState, funcState,
          ioState>>

(***************************************************************************)
(* pyLBL/tips.py                                                           *)
(***************************************************************************)
(* The column found with side="right".                                     *)
tips_column_right(tips, temperature) ==
    searchsorted(tips.temperature, I(temperature), "right") - 1

(* total_partition_function, line 191: the column left of the bracketing   *)
(* interval; -1 when the temperature is at or below the first node.        *)
tips_column(tips, temperature) ==
    searchsorted(tips.temperature, I(temperature), "left") - 1

(* The subscripts j and j+1 of lines 192-193 are inside the table.         *)
tips_columns_ok(tips, temperature) ==
    /\ NpIndexOk(tips_column(tips, temperature), Len(tips.temperature))
    /\ NpIndexOk(tips_column(tips, temperature) + 1, Len(tips.temperature))

(* TotalPartitionFunction.total_partition_function for one isotopologue.   *)
(* The result is [raised, value]; a subscript outside the table raises     *)
(* IndexError.                                                             *)
total_partition_function(tips, temperature, isotopologue) ==
    LET ii == isotopologue - 1
        j == tips_column(tips, temperature)
    IN  IF ~(NpIndexOk(ii, Len(tips.data)) /\ tips_columns_ok(tips, temperature))
        THEN [raised |-> "IndexError", value |-> NaN]
        ELSE LET row == NpIndex(tips.data, ii)
                 dj == NpIndex(row, j)
                 dj1 == NpIndex(row, j + 1)
                 tj == NpIndex(tips.temperature, j)
                 tj1 == NpIndex(tips.temperature, j + 1)
             IN  [raised |-> "",
                  value |-> RAdd(I(dj), RDiv(RMul(I(dj1 - dj), I(temperature - tj)),
                                             I(tj1 - tj)))]

(***************************************************************************)
(* pyLBL/spectral_lines.py                                                 *)
(***************************************************************************)
(* SpectralLines.__init__: the transition records as parallel arrays.      *)
SpectralLines(trs) ==
    [d_air |-> [n \in 1..Len(trs) |-> trs[n].delta_air],
     en |-> [n \in 1..Len(trs) |-> trs[n].elower],
     gamma_air |-> [n \in 1..Len(trs) |-> trs[n].gamma_air],
     gamma_self |-> [n \in 1..Len(trs) |-> trs[n].gamma_self],
     iso |-> [n \in 1..Len(trs) |-> trs[n].local_iso_id],
     n_air |-> [n \in 1..Len(trs) |-> trs[n].n_air],
     s |-> [n \in 1..Len(trs) |-> I(trs[n].sw)],
     v |-> [n \in 1..Len(trs) |-> trs[n].nu]]

pressure_shift_transition_wavenumber(line_center, delta_air, pressure) ==
    RAdd(I(line_center), RMul(I(delta_air), pressure))

(* Stand-in for exp(c2*lower_state_energy/temperature), c2 < 0: the        *)
(* rational temperature/(temperature + lower_state_energy).                *)
ExpLowerState(lower_state_energy, temperature) ==
    RDiv(I(temperature), I(temperature + lower_state_energy))

(* Stand-in for 1 - exp(c2*line_center/temperature): its first-order term  *)
(* line_center/temperature, zero exactly when the line center is zero.     *)
StimulatedEmission(line_center, temperature) ==
    RDiv(I(line_center), I(temperature))

(* temperature_correct_line_strength for one line: [raised, value].        *)
temperature_correct_line_strength(partition_function, temperature, isotopologue_id, lower_state_energy, line_center) ==
    LET x == total_partition_function(partition_function, temperature, isotopologue_id)
        y == RMul(ExpLowerState(lower_state_energy, temperature),
                  StimulatedEmission(line_center, temperature))
    IN  [raised |-> x.raised, value |-> RDiv(x.value, y)]

RECURSIVE RPow(_, _)
RPow(b, n) == IF n <= 0 THEN I(1) ELSE RMul(b, RPow(b, n - 1))

(* pressure_broadened_halfwidth for one line; the exponents are integers.  *)
pressure_broadened_halfwidth(pressure, partial_pressure, temperature, n_air, n_self, gamma_air, gamma_self) ==
    LET ratio == RDiv(I(reference_temperature), I(temperature))
    IN  RAdd(RMul(RPow(ratio, n_air), RMul(I(gamma_air), RSub(pressure, partial_pressure))),
             RMul(RMul(RPow(ratio, n_self), I(gamma_self)), partial_pressure))

(* Lumps boltzmann, avogadro, light_speed and log(2) of the Doppler width  *)
(* into one divisor of the model's units.                                  *)
DopplerUnit == 400

(* doppler_broadened_halfwidth for one line.  Stand-in for                 *)
(* sqrt_log2*v*sqrt(2kT/(m c^2)): the integer square root of               *)
(* v*v*T/(m*DopplerUnit); the square root of a negative number is NaN.     *)
doppler_broadened_halfwidth(temperature, m, transition_wavenumber) ==
    IF m = 0 \/ temperature * m < 0 THEN NaN
    ELSE I(Isqrt((transition_wavenumber * transition_wavenumber * Abs(temperature))
                 \div (Abs(m) * DopplerUnit)))

(* Height of the stand-in line shape, in the model's units.                *)
ProfileScale == 10000

(* voigt_profile at distance dv.  Stand-in for the Faddeeva function: the  *)
(* positive, even, decreasing ProfileScale/(dv^2 + gamma^2 + alpha^2),     *)
(* rounded down to an integer; a zero Doppler width divides by zero.       *)
voigt_profile(dv, pressure_halfwidth, doppler_halfwidth) ==
    IF IsNaN(dv) \/ IsNaN(pressure_halfwidth) \/ IsNaN(doppler_halfwidth)
       \/ doppler_halfwidth[1] = 0
    THEN NaN
    ELSE LET den == RAdd(RMul(dv, dv),
                         RAdd(RMul(pressure_halfwidth, pressure_halfwidth),
                              RMul(doppler_halfwidth, doppler_halfwidth)))
         IN  I((ProfileScale * den[2]) \div den[1])

RAbs(x) == IF IsNaN(x) THEN NaN ELSE <<Abs(x[1]), x[2]>>

(* brute_force, lines 90-91: the half-open window [left, right) of one     *)
(* line on the grid.                                                       *)
window_left(w, c, cut) == searchsorted(w, RSub(c, I(cut)), "left")

(* A window that reaches twice the cut-off on its right side.              *)
window_right_wide(w, c, cut) == searchsorted(w, RAdd(c, I(2 * cut)), "right")

window_right(w, c, cut) == searchsorted(w, RAdd(c, I(cut)), "right")

(* brute_force, lines 94-95: what line number n adds at grid index g.      *)
contribution(w, g, c, st, ga, al) ==
    RMul(st, voigt_profile(RAbs(RSub(I(w[g]), c)), ga, al))

(* The name min of line 97 is numpy.min (imported at line 3), not the      *)
(* builtin: its second positional parameter is the axis of the reduction.  *)
(* Line 97 hands it a float64 element of k, which numpy refuses as an axis *)
(* with a TypeError, whatever the two values are: [raised, value].         *)
np_min(a, axis) == [raised |-> "TypeError", value |-> a]

(* brute_force, lines 94-97: one pass of the loop body over the output kk  *)
(* for a line with window [l, r).  The result is [raised, k]; k is the     *)
(* array as the statement that raised left it.                             *)
brute_force_line(kk, w, l, r, c, st, ga, al, rp) ==
    LET added == [g \in 1..Len(kk) |->
                     IF g > l /\ g <= r
                     THEN RAdd(kk[g], contribution(w, g, c, st, ga, al))
                     ELSE kk[g]]
    IN  IF ~rp THEN [raised |-> "", k |-> added]
        ELSE IF ~(NpIndexOk(l, Len(kk)) /\ NpIndexOk(r - 1, Len(kk)))
        THEN [raised |-> "IndexError", k |-> added]
        ELSE LET pedestal == np_min(NpIndex(added, l), NpIndex(added, r - 1))
             IN  IF pedestal.raised # ""
                 THEN [raised |-> pedestal.raised, k |-> added]
                 ELSE [raised |-> "",
                       k |-> [g \in 1..Len(kk) |->
                                 IF g > l /\ g <= r
                                 THEN RSub(added[g], pedestal.value)
                                 ELSE added[g]]]

(* A lookup that falls back on the last entry of the table.                *)
mass_lookup_clamped(mm, iso) ==
    [raised |-> "",
     value |-> IF NpIndexOk(iso - 1, Len(mm)) THEN NpIndex(mm, iso - 1)
               ELSE mm[Len(mm)]]

(* mass[iso - 1] of line 130 for one line: [raised, value].                *)
mass_lookup(mm, iso) ==
    IF NpIndexOk(iso - 1, Len(mm))
    THEN [raised |-> "", value |-> NpIndex(mm, iso - 1)]
    ELSE [raised |-> "IndexError", value |-> 0]

(* line_profile, lines 127-130: the arrays handed to brute_force, or the   *)
(* exception raised on the way.  is_float tells whether the temperature is *)
(* a Python float (296./0. raises) or a numpy scalar.                      *)
line_profile_arrays(lines, ss, qq, n_self, mm, tt, pp, vv, is_float) ==
    LET num == Len(lines.v)
        tc == [n \in 1..num |->
                  temperature_correct_line_strength(qq, tt, lines.iso[n],
                                                    lines.en[n], lines.v[n])]
    IN  [raised |->
             IF ~tips_columns_ok(qq, tt) \/ \E n \in 1..num : tc[n].raised # ""
             THEN "IndexError"
             ELSE IF tt = 0 /\ is_float THEN "ZeroDivisionError"
             ELSE IF \E n \in 1..num : mass_lookup(mm, lines.iso[n]).raised # ""
             THEN "IndexError"
             ELSE "",
         center |-> [n \in 1..num |->
             pressure_shift_transition_wavenumber(lines.v[n], lines.d_air[n], pp)],
         strength |-> [n \in 1..num |-> RDiv(ss[n], tc[n].value)],
         gamma |-> [n \in 1..num |->
             pressure_broadened_halfwidth(pp, RMul(pp, vv), tt, lines.n_air[n],
                                          n_self[n], lines.gamma_air[n],
                                          lines.gamma_self[n])],
         alpha |-> [n \in 1..num |->
             doppler_broadened_halfwidth(tt, mass_lookup(mm, lines.iso[n]).value,
                                         lines.v[n])]]

(* An output array with one element per line instead of one per grid point.*)
brute_force_entry_sized_by_lines(w, c, cut) ==
    [left |-> [n \in 1..Len(c) |-> window_left(w, c[n], cut)],
     right |-> [n \in 1..Len(c) |-> window_right(w, c[n], cut)],
     k |-> zeros(Len(c))]

(* brute_force, lines 90-92: the windows of all lines and the zeroed       *)
(* output array.                                                           *)
brute_force_entry(w, c, cut) ==
    [left |-> [n \in 1..Len(c) |-> window_left(w, c[n], cut)],
     right |-> [n \in 1..Len(c) |-> window_right(w, c[n], cut)],
     k |-> zeros(Len(w))]

(* brute_force, lines 92-98, from line number n on with the output kk so   *)
(* far: [raised, k].                                                       *)
RECURSIVE brute_force_from(_, _, _, _, _, _, _, _, _)
brute_force_from(kk, n, w, c, st, ga, al, rp, cut) ==
    IF n > Len(c) THEN [raised |-> "", k |-> kk]
    ELSE LET step == brute_force_line(kk, w, window_left(w, c[n], cut),
                                      window_right(w, c[n], cut), c[n], st[n],
                                      ga[n], al[n], rp)
         IN  IF step.raised # "" THEN step
             ELSE brute_force_from(step.k, n + 1, w, c, st, ga, al, rp, cut)

brute_force(w, c, st, ga, al, rp, cut) ==
    brute_force_from(brute_force_entry(w, c, cut).k, 1, w, c, st, ga, al, rp, cut)

(* line_profile, lines 127-132, as a function of its arguments:            *)
(* [raised, value].                                                        *)
line_profile(trs, ss, qq, mm, tt, pp, vv, w, cut, rp, is_float) ==
    LET lines == SpectralLines(trs)
        arrays == line_profile_arrays(lines, ss, qq, lines.n_air, mm, tt, pp, vv,
                                      is_float)
        bf == brute_force(w, arrays.center, arrays.strength, arrays.gamma,
                          arrays.alpha, rp, cut)
    IN  IF arrays.raised # "" THEN [raised |-> arrays.raised, value |-> <<>>]
        ELSE IF bf.raised # "" THEN [raised |-> bf.raised, value |-> <<>>]
        ELSE [raised |-> "",
              value |-> [g \in 1..Len(w) |-> RMul(RMul(bf.k[g], cm_to_m), cm_to_m)]]

(* Strengths stored as the database gives them.                            *)
initial_strength_correction_uncorrected(ss, qq, tt, iso, en, v) ==
    LET tc == [n \in 1..Len(ss) |->
                  temperature_correct_line_strength(qq, tt, iso[n], en[n], v[n])]
    IN  [raised |-> IF ~tips_columns_ok(qq, tt) \/ \E n \in 1..Len(ss) : tc[n].raised # ""
                    THEN "IndexError" ELSE "",
         value |-> ss]

(* initial_strength_correction over all lines: [raised, value].            *)
initial_strength_correction(ss, qq, tt, iso, en, v) ==
    LET tc == [n \in 1..Len(ss) |->
                  temperature_correct_line_strength(qq, tt, iso[n], en[n], v[n])]
    IN  [raised |-> IF ~tips_columns_ok(qq, tt) \/ \E n \in 1..Len(ss) : tc[n].raised # ""
                    THEN "IndexError" ELSE "",
         value |-> [n \in 1..Len(ss) |-> RMul(ss[n], tc[n].value)]]

(***************************************************************************)
(* The line engine as a state machine.                                     *)
(*   pc = "new"          nothing built yet                                 *)
(*   pc = "ready"        a Gas object exists                               *)
(*   pc = "brute_force"  inside the loop of brute_force, before line i     *)
(*   pc = "returned"     line_profile returned result                      *)
(*   pc = "raised"       an exception reached the caller                   *)
(***************************************************************************)
(* An empty dictionary.                                                    *)
EmptyMap == [x \in {} |-> 0]

(* The value None of the argument mapping of Atmosphere.                   *)
NoMapping == [is_none |-> TRUE, play |-> <<>>, tlay |-> <<>>, mole_fraction |-> EmptyMap]

BlankReader ==
    /\ stream = <<>> /\ block_size = 0 /\ reader = "" /\ offset = 0
    /\ record = <<>> /\ reader_done = FALSE /\ yielded = <<>>

BlankParser ==
    /\ molecule = <<>> /\ found_molecule = FALSE /\ num_isotopologues = 0
    /\ rows = <<>> /\ line_index = 0

BlankAtm ==
    /\ dataset = <<>> /\ mapping = NoMapping

BlankPairs ==
    /\ progress = EmptyMap

(* The value "all" of the argument molecules of Database.create.           *)
AllMolecules == [is_all |-> TRUE, names |-> {}]

BlankDatabase ==
    /\ all_molecules = <<>> /\ molecules_arg = AllMolecules /\ mol_index = 0
    /\ session = {} /\ tables = {}

BlankIo ==
    /\ BlankAtm
    /\ BlankReader
    /\ BlankParser
    /\ BlankPairs
    /\ BlankDatabase

BlankFunctions ==
    /\ coeffs = <<>> /\ xsec = <<>> /\ pressure_pa = 0 /\ bands = <<>>
    /\ target_grid = <<>>

BlankFunc ==
    /\ BlankFunctions
    /\ BlankIo

BlankAbs ==
    /\ atmosphere_gases = <<>> /\ npoints = 0
    /\ lines_backend = "" /\ continua_backend = ""
    /\ cross_sections_backend = "" /\ self_grid = <<>>
    /\ cache = EmptyMap /\ output_format = "" /\ pedestal_flag = FALSE
    /\ remove_pedestal_arg = ""
    /\ beta = EmptyMap /\ gas_index = 0 /\ point = 0 /\ output = EmptyMap
    /\ calls = 0 /\ unavailable = {} /\ constructions = EmptyMap

Blank ==
    /\ s = <<>> /\ t = 0 /\ p = Zero /\ vmr = Zero /\ python_float = TRUE
    /\ wavenumber = <<>>
    /\ remove_pedestal = FALSE /\ continuum_arg = "" /\ cut_off = CutOffDefault
    /\ center = <<>> /\ strength = <<>> /\ gamma = <<>> /\ alpha = <<>>
    /\ left = <<>> /\ right = <<>> /\ i = 0 /\ k = <<>> /\ result = <<>>

InitLines ==
    /\ pc = "new"
    /\ raised = ""
    /\ site = ""
    /\ q = GasTips
    /\ mass \in MassTables
    /\ transitions \in TransitionLists
    /\ Blank
    /\ iso_query = 0
    /\ BlankAbs
    /\ BlankFunc

(* Gas.__init__, lines 144-149.  asarray of an empty list is a float       *)
(* array, which numpy rejects as a subscript of the TIPS table.            *)
GasInit ==
    /\ pc = "new"
    /\ LET lines == SpectralLines(transitions)
           corrected == initial_strength_correction(lines.s, q,
                            TIPS_REFERENCE_TEMPERATURE, lines.iso, lines.en, lines.v)
       IN  IF transitions = <<>> \/ corrected.raised # ""
           THEN /\ pc' = "raised"
                /\ raised' = "IndexError"
                /\ site' = "Gas.__init__"
                /\ s' = s
           ELSE /\ pc' = "ready"
                /\ raised' = raised
                /\ site' = site
                /\ s' = corrected.value
    /\ UNCHANGED <<q, mass, transitions, t, p, vmr, python_float, wavenumber,
                   remove_pedestal, continuum_arg, cut_off, center, strength, gamma, alpha, left,
                   right, i, k, result>>
    /\ UNCHANGED <<iso_query, absState, funcState, ioState>>

(* line_profile, lines 127-131, up to the entry of brute_force's loop      *)
(* (lines 90-92).                                                          *)
LineProfileCall(ss, n_self, tt, pp, vv, grid, cut, rp, is_float) ==
    LET lines == SpectralLines(transitions)
        arrays == line_profile_arrays(lines, ss, q, n_self, mass, tt, pp, vv,
                                      is_float)
    IN  /\ t' = tt /\ p' = pp /\ vmr' = vv /\ python_float' = is_float
        /\ wavenumber' = grid
        /\ remove_pedestal' = rp /\ cut_off' = cut
        /\ IF arrays.raised # ""
           THEN /\ pc' = "raised"
                /\ raised' = arrays.raised
                /\ site' = "line_profile"
                /\ UNCHANGED <<center, strength, gamma, alpha, left, right, i, k>>
           ELSE /\ pc' = "brute_force"
                /\ raised' = raised
                /\ site' = site
                /\ center' = arrays.center
                /\ strength' = arrays.strength
                /\ gamma' = arrays.gamma
                /\ alpha' = arrays.alpha
                /\ left' = brute_force_entry(grid, arrays.center, cut).left
                /\ right' = brute_force_entry(grid, arrays.center, cut).right
                /\ i' = 0
                /\ k' = brute_force_entry(grid, arrays.center, cut).k
        /\ UNCHANGED <<q, mass, transitions, result>>
        /\ UNCHANGED <<iso_query, absState, funcState, ioState>>

(* Gas.absorption_coefficient, lines 164-169.                              *)
GasAbsorptionCoefficient ==
    /\ pc = "ready"
    /\ \E temperature \in Temperatures, pressure \in Pressures,
          volume_mixing_ratio \in MixingRatios, grid \in Grids,
          continuum \in {"mt-ckd", "mt-cdk"}, is_float \in BOOLEAN :
          /\ temperature # 0 => is_float
          /\ LineProfileCall(s, SpectralLines(transitions).n_air, temperature,
                             RMul(I(pressure), pa_to_atm), volume_mixing_ratio,
                             grid, CutOffDefault, continuum = "mt-cdk", is_float)
          /\ continuum_arg' = continuum
    /\ s' = s

(* line_profile called directly with the arrays of the transition list,    *)
(* the database strengths and the pressure in atm.                         *)
LineProfile ==
    /\ pc = "new"
    /\ \E temperature \in Temperatures, pressure \in Pressures,
          volume_mixing_ratio \in MixingRatios, grid \in Grids,
          rp \in BOOLEAN, is_float \in BOOLEAN :
          /\ temperature # 0 => is_float
          /\ s' = SpectralLines(transitions).s
          /\ LineProfileCall(s', SpectralLines(transitions).n_air, temperature,
                             RMul(I(pressure), pa_to_atm), volume_mixing_ratio,
                             grid, CutOffDefault, rp, is_float)
    /\ continuum_arg' = continuum_arg

(* brute_force, lines 93-97: the loop body for line i.                     *)
BruteForceLine ==
    /\ pc = "brute_force"
    /\ i < Len(center)
    /\ LET n == i + 1
           step == brute_force_line(k, wavenumber, left[n], right[n], center[n],
                                    strength[n], gamma[n], alpha[n], remove_pedestal)
       IN  /\ k' = step.k
           /\ IF step.raised # ""
              THEN pc' = "raised" /\ raised' = step.raised
                   /\ site' = "brute_force" /\ i' = i
              ELSE pc' = pc /\ raised' = raised /\ site' = site /\ i' = i + 1
    /\ UNCHANGED <<q, mass, transitions, s, t, p, vmr, python_float, wavenumber,
                   remove_pedestal, continuum_arg, cut_off, center, strength, gamma, alpha, left,
                   right, result>>
    /\ UNCHANGED <<iso_query, absState, funcState, ioState>>

(* brute_force line 98 and line_profile line 132.                          *)
LineProfileReturn ==
    /\ pc = "brute_force"
    /\ i = Len(center)
    /\ pc' = "returned"
    /\ result' = [g \in 1..Len(k) |-> RMul(RMul(k[g], cm_to_m), cm_to_m)]
    /\ UNCHANGED <<raised, site, q, mass, transitions, s, t, p, vmr, python_float,
                   wavenumber, remove_pedestal, continuum_arg, cut_off, center, strength, gamma,
                   alpha, left, right, i, k>>
    /\ UNCHANGED <<iso_query, absState, funcState, ioState>>

NextLines ==
    \/ GasInit
    \/ GasAbsorptionCoefficient
    \/ LineProfile
    \/ BruteForceLine
    \/ LineProfileReturn

SpecLines == InitLines /\ [][NextLines]_vars

(***************************************************************************)
(* The partition-function table queried on its own.                        *)
(*   pc = "tips"           a table exists                                  *)
(*   pc = "tips_returned"  total_partition_function returned result        *)
(*   pc = "tips_raised"    it raised                                       *)
(***************************************************************************)
InitTips ==
    /\ pc = "tips"
    /\ raised = ""
    /\ site = ""
    /\ q \in TipsTables
    /\ mass = <<>>
    /\ transitions = <<>>
    /\ Blank
    /\ iso_query = 0
    /\ BlankAbs
    /\ BlankFunc

(* TotalPartitionFunction.total_partition_function, lines 180-193.         *)
TotalPartitionFunctionCall ==
    /\ pc = "tips"
    /\ \E temperature \in QueryTemperatures, isotopologue \in 1..TipsIsotopologues :
          LET out == total_partition_function(q, temperature, isotopologue)
          IN  /\ t' = temperature
              /\ iso_query' = isotopologue
              /\ IF out.raised # ""
                 THEN /\ pc' = "tips_raised"
                      /\ raised' = out.raised
                      /\ site' = "total_partition_function"
                      /\ result' = result
                 ELSE /\ pc' = "tips_returned"
                      /\ raised' = raised
                      /\ site' = site
                      /\ result' = out.value
    /\ UNCHANGED <<q, linesState, absState, funcState, ioState>>

NextTips == TotalPartitionFunctionCall

SpecTips == InitTips /\ [][NextTips]_vars

(***************************************************************************)
(* pyLBL/c_lib/gas_optics.py                                               *)
(***************************************************************************)
(* round() of a finite float: the nearest integer, a tie goes to the even  *)
(* one.                                                                    *)
round(x) ==
    LET fl == x[1] \div x[2]
        twice == 2 * (x[1] - fl * x[2])
    IN  IF twice < x[2] THEN fl
        ELSE IF twice > x[2] THEN fl + 1
        ELSE IF fl % 2 = 0 THEN fl ELSE fl + 1

(* Gas.absorption_coefficient, line 63: n_per_v for the spacing dv.        *)
n_per_v(dv) == round(RDiv(I(1), dv))

(* Gas.absorption_coefficient, lines 61-65: the number of elements of the  *)
(* array k for a grid of rationals, [raised, value].  grid[0] and grid[1]  *)
(* need two grid points; a zero spacing makes 1./0. infinite, which round  *)
(* refuses; zeros refuses a negative length.                               *)
absorption_k_size(grid) ==
    IF Len(grid) < 2 THEN [raised |-> "IndexError", value |-> 0]
    ELSE IF grid[2] = grid[1] THEN [raised |-> "OverflowError", value |-> 0]
    ELSE LET v0 == round(grid[1])
             vn == round(grid[Len(grid)]) + 1
             size == (vn - v0) * n_per_v(RSub(grid[2], grid[1]))
         IN  IF size < 0 THEN [raised |-> "ValueError", value |-> 0]
             ELSE [raised |-> "", value |-> size]

(***************************************************************************)
(* pyLBL/high_level_api.py                                                 *)
(***************************************************************************)
None == [kind |-> "None"]

(* A constructor that looks up the lines and continua back-ends only.      *)
Spectroscopy_two_lookups(lines, continuum, cross_section) ==
    [raised |-> IF lines \notin LinesBackends \/ continuum \notin ContinuaBackends
                THEN "KeyError" ELSE "",
     site |-> IF lines \notin LinesBackends THEN "molecular_lines"
              ELSE IF continuum \notin ContinuaBackends THEN "continua" ELSE ""]

(* Spectroscopy.__init__, lines 96-105: the three registry lookups in the  *)
(* order of the code; a name that is no key raises KeyError.               *)
Spectroscopy(lines, continuum, cross_section) ==
    [raised |-> IF lines \notin LinesBackends
                   \/ continuum \notin ContinuaBackends
                   \/ cross_section \notin CrossSectionsBackends
                THEN "KeyError" ELSE "",
     site |-> IF lines \notin LinesBackends THEN "molecular_lines"
              ELSE IF continuum \notin ContinuaBackends THEN "continua"
              ELSE IF cross_section \notin CrossSectionsBackends
              THEN "cross_sections" ELSE ""]

(* plugins.py lines 26-36 with the entry points of setup.py lines 48-55:   *)
(* the continua registered under a back-end name.  "foreign_only" is a     *)
(* plug-in that registers H2OForeignContinuum alone.                       *)
continua(backend) ==
    IF backend = "mt_ckd"
    THEN {"CO2", "H2OForeign", "H2OSelf", "N2", "O2", "O3"}
    ELSE {"H2OForeign"}

(* Database.gas, lines 362-367: the ways the call can end.  The lookups    *)
(* raise the four not-found errors; when all succeed, the constructor      *)
(* TotalPartitionFunction(molecule, database=None) of tips.py line 75 is   *)
(* called with three arguments, a TypeError.                               *)
database_gas_outcomes ==
    {"AliasNotFoundError", "IsotopologuesNotFoundError",
     "TransitionsNotFoundError", "TipsDataNotFoundError", "TypeError"}

(* Database.arts_crossfit, lines 409-415.                                  *)
database_arts_crossfit_outcomes ==
    {"path", "AliasNotFoundError", "CrossSectionNotFoundError"}

(* The ways the constructor of the lines engine can end: c_lib Gas         *)
(* (gas_optics.py lines 35-43) stores its arguments; PyArtsGas             *)
(* (frontend.py lines 107-112) raises ValueError without pyarts and        *)
(* otherwise queries Database.gas.                                         *)
lines_engine_outcomes(backend) ==
    IF backend = "pyLBL" THEN {"Gas"}
    ELSE {"ValueError"} \cup database_gas_outcomes

(* A handler that catches AliasNotFoundError alone.                        *)
lines_handler_catches_alias_only(exc) == exc = "AliasNotFoundError"

(* MoleculeCache.__init__, lines 39-40: the except clause of the lines     *)
(* engine.                                                                 *)
lines_handler_catches(exc) ==
    exc \in {"AliasNotFoundError", "IsotopologuesNotFoundError",
             "TipsDataNotFoundError", "TransitionsNotFoundError"}

(* MoleculeCache.__init__, line 52.                                        *)
cross_section_handler_catches(exc) ==
    exc \in {"AliasNotFoundError", "CrossSectionNotFoundError"}

(* MoleculeCache.__init__, lines 42-45.                                    *)
continuum_names(name) ==
    IF name = "H2O" THEN <<"H2OForeign", "H2OSelf">> ELSE <<name>>

(* MoleculeCache.__init__, lines 36-54, for the outcome of the lines       *)
(* engine constructor and of Database.arts_crossfit: the exception that    *)
(* leaves the constructor, if any, and the three attributes.               *)
MoleculeCache(name, lines_outcome, continua_engine, crossfit_outcome) ==
    LET names == continuum_names(name)
        lines_raised == lines_outcome # "Gas"
        crossfit_raised == crossfit_outcome # "path"
    IN  [raised |->
             IF lines_raised /\ ~lines_handler_catches(lines_outcome)
             THEN lines_outcome
             ELSE IF crossfit_raised /\ ~cross_section_handler_catches(crossfit_outcome)
             THEN crossfit_outcome
             ELSE "",
         gas |-> IF lines_raised THEN None ELSE [kind |-> "Gas", formula |-> name],
         gas_continua |->
             IF \E n \in 1..Len(names) : names[n] \notin continua_engine
             THEN None
             ELSE [kind |-> "list", names |-> names],
         cross_section |->
             IF crossfit_raised THEN None
             ELSE [kind |-> "CrossSection", formula |-> name]]

(* The <<name, mechanism>> pairs a construction found unavailable.         *)
found_unavailable(name, lines_outcome, continua_engine, crossfit_outcome) ==
    LET names == continuum_names(name)
    IN  {<<name, "lines">> : x \in {y \in {lines_outcome} : lines_handler_catches(y)}}
        \cup {<<name, "continuum">> :
                  x \in {n \in 1..Len(names) : names[n] \notin continua_engine}}
        \cup {<<name, "cross_section">> :
                  x \in {y \in {crossfit_outcome} :
                            y # "path" /\ cross_section_handler_catches(y)}}

(* Stand-ins for the numbers the engines put into their arrays: the lines  *)
(* of CO2 are negligible (zero), only CFC11 has a cross section.           *)
number_density(at) == at

gas_absorption_coefficient(name, at, rp) ==
    IF name = "H2O" THEN (IF rp THEN 2 ELSE 3)
    ELSE IF name = "CO2" THEN 0 ELSE 1

continuum_spectra(cname, at) ==
    IF cname = "H2OSelf" THEN 2 ELSE 1

cross_section_absorption_coefficient(name, at) ==
    IF name = "CFC11" THEN 4 ELSE 0

RECURSIVE SumSeq(_)
SumSeq(seq) == IF seq = <<>> THEN 0 ELSE Head(seq) + SumSeq(Tail(seq))

(* An array of n elements proportional to base that grows along the        *)
(* wavenumber axis.                                                        *)
spectrum(base, n) == [g \in 1..n |-> base * g]

(* c_lib Gas.absorption_coefficient, lines 61-92, on a grid of integers:   *)
(* the array k as the library filled it, [raised, value].                  *)
c_lib_absorption_coefficient(name, at, rp, grid) ==
    LET size == absorption_k_size([g \in 1..Len(grid) |-> I(grid[g])])
    IN  [raised |-> size.raised,
         value |-> spectrum(gas_absorption_coefficient(name, at, rp), size.value)]

(* compute_absorption, line 174: n*k[:grid.size] stored into a slice of    *)
(* size elements; numpy broadcasts one element and refuses any other       *)
(* length that is not size.                                                *)
store_lines(n, kk, size) ==
    LET kept == IF Len(kk) < size THEN Len(kk) ELSE size
    IN  IF kept = size THEN [raised |-> "", value |-> [g \in 1..size |-> n * kk[g]]]
        ELSE IF kept = 1 THEN [raised |-> "", value |-> [g \in 1..size |-> n * kk[1]]]
        ELSE [raised |-> "ValueError", value |-> <<>>]

(* compute_absorption, lines 162-188: the three mechanism slices of one    *)
(* gas at one atmospheric point, starting from the slices old.             *)
(* lines_outcome is how the library call of the lines engine ends; gases   *)
(* are the keys of vmr, which every MT-CKD band subscripts with "H2O"      *)
(* (utils.py line 42).  The result is [raised, site, value].               *)
point_absorption(old, data, name, at, rp, lines_outcome, grid, gases) ==
    LET n == number_density(at)
        size == Len(grid)
        kk == c_lib_absorption_coefficient(name, at, rp, grid)
        stored == store_lines(n, kk.value, size)
        lines == IF data.gas = None
                 THEN [raised |-> "", site |-> "", value |-> old[1]]
                 ELSE IF kk.raised # ""
                 THEN [raised |-> kk.raised, site |-> "absorption_coefficient",
                       value |-> old[1]]
                 ELSE IF lines_outcome # "ok"
                 THEN [raised |-> lines_outcome, site |-> "absorption_coefficient",
                       value |-> old[1]]
                 ELSE [raised |-> stored.raised,
                       site |-> IF stored.raised # "" THEN "compute_absorption" ELSE "",
                       value |-> stored.value]
        continuum ==
            IF data.gas_continua = None
            THEN [raised |-> "", site |-> "", value |-> old[2]]
            ELSE IF "H2O" \notin gases
            THEN [raised |-> "KeyError", site |-> "spectra", value |-> old[2]]
            ELSE LET added == spectrum(
                         SumSeq([c \in 1..Len(data.gas_continua.names) |->
                                    continuum_spectra(data.gas_continua.names[c], at)]),
                         size)
                 IN  [raised |-> "", site |-> "",
                      value |-> [g \in 1..size |-> old[2][g] + added[g]]]
        cross == IF data.cross_section # None
                 THEN [g \in 1..size |->
                          n * spectrum(cross_section_absorption_coefficient(name, at),
                                       size)[g]]
                 ELSE old[3]
    IN  IF lines.raised # ""
        THEN [raised |-> lines.raised, site |-> lines.site, value |-> old]
        ELSE IF continuum.raised # ""
        THEN [raised |-> continuum.raised, site |-> continuum.site, value |-> old]
        ELSE [raised |-> "", site |-> "",
              value |-> <<lines.value, continuum.value, cross>>]

(* A sum that leaves the last mechanism out.                               *)
npsum_without_last(slices, size) ==
    [g \in 1..size |-> SumSeq([m \in 1..(Len(slices) - 1) |-> slices[m][g]])]

(* numpy.sum over the mechanism axis of the slices of one point.           *)
npsum(slices, size) ==
    [g \in 1..size |-> SumSeq([m \in 1..Len(slices) |-> slices[m][g]])]

(* compute_absorption, lines 190-203: the data variables of the Dataset.   *)
combine(fmt, b, names, n, size) ==
    IF fmt = "all" THEN b
    ELSE IF fmt = "gas"
    THEN [x \in DOMAIN b |-> [at \in 1..n |-> npsum(b[x][at], size)]]
    ELSE [absorption |->
             [at \in 1..n |->
                 [g \in 1..size |->
                     SumSeq([x \in 1..Len(names) |-> npsum(b[names[x]][at], size)[g]])]]]

(* compute_absorption, lines 136-143 and 203: the Dataset that is          *)
(* returned, its coordinates and its data variables.                       *)
Dataset(fmt, b, names, n, grid) ==
    [wavenumber |-> grid,
     mechanism |-> IF fmt = "all" THEN Mechanisms ELSE <<>>,
     data_vars |-> combine(fmt, b, names, n, Len(grid))]

(***************************************************************************)
(* Spectroscopy and compute_absorption as a state machine.                 *)
(*   pc = "abs_new"     the arguments of Spectroscopy are at hand          *)
(*   pc = "abs_no_object"  Spectroscopy raised, there is no object         *)
(*   pc = "abs_idle"    a Spectroscopy object exists, no call is running   *)
(*   pc = "abs_gas"     at the head of the loop over the gases             *)
(*   pc = "abs_point"   at the head of the loop over the points            *)
(*   pc = "abs_raised"  the call ended with an exception                   *)
(* A call that returns leaves output and goes back to "abs_idle".          *)
(***************************************************************************)
InitAbs ==
    /\ pc = "abs_new"
    /\ raised = ""
    /\ site = ""
    /\ q = GasTips
    /\ mass = <<>>
    /\ transitions = <<>>
    /\ Blank
    /\ iso_query = 0
    /\ atmosphere_gases \in AtmosphereGasLists
    /\ npoints \in 1..MaxPoints
    /\ self_grid \in SpectroscopyGrids
    /\ lines_backend = ""
    /\ continua_backend = ""
    /\ cross_sections_backend = ""
    /\ cache = EmptyMap
    /\ output_format = ""
    /\ remove_pedestal_arg = ""
    /\ pedestal_flag = FALSE
    /\ beta = EmptyMap
    /\ gas_index = 0
    /\ point = 0
    /\ output = EmptyMap
    /\ calls = 0
    /\ unavailable = {}
    /\ constructions = EmptyMap
    /\ BlankFunc

(* Spectroscopy.__init__, lines 96-105.                                    *)
SpectroscopyInit ==
    /\ pc = "abs_new"
    /\ \E lines \in BackendArguments(LinesBackends),
          continuum \in BackendArguments(ContinuaBackends),
          cross_section \in BackendArguments(CrossSectionsBackends) :
          LET made == Spectroscopy(lines, continuum, cross_section)
          IN  /\ lines_backend' = lines
              /\ continua_backend' = continuum
              /\ cross_sections_backend' = cross_section
              /\ raised' = made.raised
              /\ site' = made.site
              /\ pc' = IF made.raised # "" THEN "abs_no_object" ELSE "abs_idle"
    /\ UNCHANGED <<atmosphere_gases, npoints, self_grid, cache, output_format,
                   remove_pedestal_arg, pedestal_flag, beta, gas_index, point, output,
                   calls, unavailable, constructions>>
    /\ UNCHANGED <<q, t, result, iso_query, linesState, funcState, ioState>>

(* compute_absorption, lines 129-149: up to the loop over the gases.       *)
ComputeAbsorption ==
    /\ pc \in {"abs_idle", "abs_raised"}
    /\ calls < MaxCalls
    /\ \E fmt \in OutputFormats, rp \in {"None", "True", "False"} :
          /\ output_format' = fmt
          /\ remove_pedestal_arg' = rp
          /\ pedestal_flag' = IF rp = "None" THEN continua_backend = "mt_ckd"
                              ELSE rp = "True"
    /\ calls' = calls + 1
    /\ beta' = EmptyMap
    /\ output' = EmptyMap
    /\ gas_index' = 1
    /\ point' = 0
    /\ pc' = "abs_gas"
    /\ raised' = ""
    /\ site' = ""
    /\ UNCHANGED <<atmosphere_gases, npoints, lines_backend, continua_backend,
                   cross_sections_backend, self_grid, cache, unavailable,
                   constructions>>
    /\ UNCHANGED <<q, t, result, iso_query, linesState, funcState, ioState>>

(* A lookup that never finds an entry.                                     *)
cached_never(c, name) == FALSE

(* compute_absorption, lines 153-156: self.cache[name] raises no KeyError. *)
cached(c, name) == name \in DOMAIN c

(* compute_absorption, lines 150-161: the slices of the next gas are       *)
(* zeroed and its MoleculeCache is looked up or built.                     *)
GasLoop ==
    /\ pc = "abs_gas"
    /\ gas_index <= Len(atmosphere_gases)
    /\ LET name == atmosphere_gases[gas_index]
           empty == [g \in 1..Len(self_grid) |-> 0]
           slices == [at \in 1..npoints |-> <<empty, empty, empty>>]
       IN  /\ beta' = [x \in DOMAIN beta \cup {name} |->
                          IF x = name THEN slices ELSE beta[x]]
           /\ IF cached(cache, name)
              THEN /\ pc' = "abs_point"
                   /\ UNCHANGED <<cache, unavailable, constructions, raised, site>>
              ELSE \E lines_outcome \in lines_engine_outcomes(lines_backend),
                      crossfit_outcome \in database_arts_crossfit_outcomes :
                      LET data == MoleculeCache(name, lines_outcome,
                                                continua(continua_backend),
                                                crossfit_outcome)
                      IN  IF data.raised # ""
                          THEN /\ pc' = "abs_raised"
                               /\ raised' = data.raised
                               /\ site' = "MoleculeCache"
                               /\ UNCHANGED <<cache, unavailable, constructions>>
                          ELSE /\ pc' = "abs_point"
                               /\ constructions' =
                                      [x \in DOMAIN constructions \cup {name} |->
                                          IF x = name
                                          THEN (IF name \in DOMAIN constructions
                                                THEN constructions[name] + 1 ELSE 1)
                                          ELSE constructions[x]]
                               /\ cache' = [x \in DOMAIN cache \cup {name} |->
                                               IF x = name
                                               THEN [gas |-> data.gas,
                                                     gas_continua |-> data.gas_continua,
                                                     cross_section |-> data.cross_section]
                                               ELSE cache[x]]
                               /\ unavailable' = unavailable \cup
                                      found_unavailable(name, lines_outcome,
                                                        continua(continua_backend),
                                                        crossfit_outcome)
                               /\ UNCHANGED <<raised, site>>
    /\ point' = 0
    /\ UNCHANGED <<atmosphere_gases, npoints, lines_backend, continua_backend,
                   cross_sections_backend, self_grid, output_format,
                   remove_pedestal_arg, pedestal_flag, gas_index, output, calls>>
    /\ UNCHANGED <<q, t, result, iso_query, linesState, funcState, ioState>>

(* compute_absorption, lines 162-188: one atmospheric point of the current *)
(* gas; after the last point the loop over the gases goes on.              *)
PointLoop ==
    /\ pc = "abs_point"
    /\ point < npoints
    /\ LET name == atmosphere_gases[gas_index]
           at == point + 1
       IN  \E lines_outcome \in {"ok", "ValueError"} :
              LET step == point_absorption(beta[name][at], cache[name], name, at,
                                           pedestal_flag, lines_outcome, self_grid,
                                           {atmosphere_gases[x] :
                                               x \in 1..Len(atmosphere_gases)})
              IN  IF step.raised # ""
                  THEN /\ pc' = "abs_raised"
                       /\ raised' = step.raised
                       /\ site' = step.site
                       /\ UNCHANGED <<beta, point, gas_index>>
                  ELSE /\ beta' = [beta EXCEPT ![name][at] = step.value]
                       /\ IF at = npoints
                          THEN pc' = "abs_gas" /\ gas_index' = gas_index + 1
                               /\ point' = 0
                          ELSE pc' = pc /\ gas_index' = gas_index /\ point' = at
                       /\ UNCHANGED <<raised, site>>
    /\ UNCHANGED <<atmosphere_gases, npoints, lines_backend, continua_backend,
                   cross_sections_backend, self_grid, cache, output_format,
                   remove_pedestal_arg, pedestal_flag, output, calls, unavailable,
                   constructions>>
    /\ UNCHANGED <<q, t, result, iso_query, linesState, funcState, ioState>>

(* compute_absorption, lines 190-203: the Dataset is put together and      *)
(* returned.                                                               *)
Combine ==
    /\ pc = "abs_gas"
    /\ gas_index > Len(atmosphere_gases)
    /\ output' = Dataset(output_format, beta, atmosphere_gases, npoints, self_grid)
    /\ pc' = "abs_idle"
    /\ UNCHANGED <<atmosphere_gases, npoints, lines_backend, continua_backend,
                   cross_sections_backend, self_grid, cache, output_format,
                   remove_pedestal_arg, pedestal_flag, beta, gas_index, point, calls,
                   unavailable, constructions>>
    /\ UNCHANGED <<raised, site, q, t, result, iso_query, linesState, funcState, ioState>>

NextAbs ==
    \/ SpectroscopyInit
    \/ ComputeAbsorption
    \/ GasLoop
    \/ PointLoop
    \/ Combine

SpecAbs == InitAbs /\ [][NextAbs]_vars

(***************************************************************************)
(* pyLBL/arts_crossfit/xsec_aux_functions.py                               *)
(***************************************************************************)
(* calculate_xsec, lines 41-52 and 68, for a matrix of coefficients: the   *)
(* polynomial p00 + p10*T + p01*P + p20*T*T at every frequency.            *)
calculate_xsec(temperature, pressure, cf) ==
    [j \in 1..Len(cf[1]) |->
        cf[1][j] + cf[2][j] * temperature + cf[3][j] * pressure
        + cf[4][j] * temperature * temperature]

(* Negative values are set to zero and nothing is rescaled.                *)
calculate_xsec_fullmodel_clip_only(temperature, pressure, cf) ==
    LET raw == calculate_xsec(temperature, pressure, cf)
    IN  [j \in 1..Len(raw) |-> I(IF raw[j] < 0 THEN 0 ELSE raw[j])]

(* calculate_xsec_fullmodel, lines 101-121: the returned array as          *)
(* rationals.                                                              *)
calculate_xsec_fullmodel(temperature, pressure, cf) ==
    LET raw == calculate_xsec(temperature, pressure, cf)
        logic == [j \in 1..Len(raw) |-> raw[j] < 0]
        sumx_org == SumSeq(raw)
        removed == [j \in 1..Len(raw) |-> IF logic[j] THEN 0 ELSE raw[j]]
        w == Rat(sumx_org, SumSeq(removed))
    IN  IF Cardinality({j \in 1..Len(raw) : logic[j]}) > 0
        THEN IF sumx_org >= 0
             THEN [j \in 1..Len(raw) |-> RMul(I(removed[j]), w)]
             ELSE [j \in 1..Len(raw) |-> I(removed[j])]
        ELSE [j \in 1..Len(raw) |-> I(raw[j])]

(* Coefficient matrices of one to MaxFreq frequencies: a constant term     *)
(* that is negative, zero or positive, a linear temperature term, and a    *)
(* pressure term and a quadratic term that are the same at all             *)
(* frequencies.                                                            *)
CoeffMatrices ==
    UNION {{<<p00, p10, [j \in 1..n |-> p01], [j \in 1..n |-> p20]>> :
               p00 \in [1..n -> {-3, 0, 2}], p10 \in [1..n -> {0, 1}],
               p01 \in {0, 1}, p20 \in {-1, 0}} :
           n \in 1..MaxFreq}

(* The cross-section function called on its own.                           *)
(*   pc = "xsec"           a coefficient matrix is at hand                 *)
(*   pc = "xsec_returned"  calculate_xsec_fullmodel returned result        *)
InitXsec ==
    /\ pc = "xsec"
    /\ raised = ""
    /\ site = ""
    /\ q = GasTips
    /\ mass = <<>>
    /\ transitions = <<>>
    /\ Blank
    /\ iso_query = 0
    /\ BlankAbs
    /\ coeffs \in CoeffMatrices
    /\ xsec = <<>> /\ pressure_pa = 0 /\ bands = <<>> /\ target_grid = <<>>
    /\ BlankIo

(* calculate_xsec_fullmodel, lines 101-121.                                *)
CalculateXsecFullmodel ==
    /\ pc = "xsec"
    /\ \E temperature \in {1, 2}, pressure \in {0, 1} :
          /\ t' = temperature
          /\ pressure_pa' = pressure
          /\ xsec' = calculate_xsec(temperature, pressure, coeffs)
          /\ result' = calculate_xsec_fullmodel(temperature, pressure, coeffs)
    /\ pc' = "xsec_returned"
    /\ UNCHANGED <<raised, site, q, iso_query, linesState, absState, coeffs, bands,
                   target_grid, ioState>>

NextXsec == CalculateXsecFullmodel

SpecXsec == InitXsec /\ [][NextXsec]_vars

(***************************************************************************)
(* pyLBL/mt_ckd/utils.py                                                   *)
(***************************************************************************)
(* SECOND_RADIATION_CONSTANT = 1.4387752 [cm K] as a rational.             *)
SECOND_RADIATION_CONSTANT == <<1798469, 1250000>>

(* m_to_cm = 100. [cm m-1].                                                *)
m_to_cm == 100

(* Pa_to_mb = 0.01 [mb Pa-1] as a rational.                                *)
Pa_to_mb == <<1, 100>>

(* x <= y for finite x and y.                                              *)
RLessEq(x, y) == ~IsNaN(x) /\ ~IsNaN(y) /\ ~RLess(y, x)

(* Stand-in for exp(-x), x >= 0: the rational 1/(1 + x), which is 1 at 0   *)
(* and decreases towards 0.                                                *)
ExpMinus(x) == RDiv(I(1), RAdd(I(1), x))

(* radiation_term, lines 55-59, for one element of wavenumber: the second  *)
(* where() picks from the array r of the first one only where x > 10.      *)
radiation_term_at(wn, temperature) ==
    LET tt == RDiv(I(temperature), SECOND_RADIATION_CONSTANT)
        x == RDiv(I(wn), tt)
        r == IF RLessEq(x, <<1, 100>>)
             THEN RMul(RMul(<<1, 2>>, x), I(wn))
             ELSE I(wn)
    IN  IF RLessEq(x, I(10))
        THEN RDiv(RMul(I(wn), RSub(I(1), ExpMinus(x))), RAdd(I(1), ExpMinus(x)))
        ELSE r

radiation_term(wavenumbers, temperature) ==
    [g \in 1..Len(wavenumbers) |-> radiation_term_at(wavenumbers[g], temperature)]

(* numpy.interp with the first and the last value as fill values.          *)
interp_clamped(x, xp, fp, fill_left, fill_right) ==
    IF x < xp[1] THEN fp[1]
    ELSE IF x >= xp[Len(xp)] THEN fp[Len(xp)]
    ELSE LET j == CHOOSE n \in 1..(Len(xp) - 1) : xp[n] <= x /\ x < xp[n + 1]
         IN  RAdd(fp[j], RMul(RDiv(RSub(fp[j + 1], fp[j]), I(xp[j + 1] - xp[j])),
                              I(x - xp[j])))

(* numpy.interp(x, xp, fp, left, right) at one point x for increasing      *)
(* sample points xp.                                                       *)
interp(x, xp, fp, fill_left, fill_right) ==
    IF x < xp[1] THEN fill_left
    ELSE IF x > xp[Len(xp)] THEN fill_right
    ELSE IF x = xp[Len(xp)] THEN fp[Len(xp)]
    ELSE LET j == CHOOSE n \in 1..(Len(xp) - 1) : xp[n] <= x /\ x < xp[n + 1]
         IN  RAdd(fp[j], RMul(RDiv(RSub(fp[j + 1], fp[j]), I(xp[j + 1] - xp[j])),
                              I(x - xp[j])))

(* Stand-in for Continuum.spectra of a band (pressure in mb): the          *)
(* coefficients of the band times the pressure and the temperature ratio.  *)
band_spectra(band, temperature, pressure_mb) ==
    [j \in 1..Len(band.data) |->
        RMul(RMul(I(band.data[j]), pressure_mb), Rat(296, temperature))]

(* BandedContinuum.spectra, lines 169-174, at element g of the grid.       *)
spectra_at(bnds, temperature, pressure, grid, g) ==
    RSumOver([b \in 1..Len(bnds) |->
                 RMul(interp(grid[g], bnds[b].grid,
                             band_spectra(bnds[b], temperature,
                                          RMul(I(pressure), Pa_to_mb)),
                             Zero, Zero),
                      I(m_to_cm))])

spectra(bnds, temperature, pressure, grid) ==
    [g \in 1..Len(grid) |-> spectra_at(bnds, temperature, pressure, grid, g)]

(* Bands of a molecule: the native grid [cm-1] and the coefficients of     *)
(* three nodes, of two nodes under the same wavenumbers, and of a band of  *)
(* one node far away.                                                      *)
BandChoices ==
    {[grid |-> <<2, 10, 20>>, data |-> <<1, 3, 2>>],
     [grid |-> <<10, 20>>, data |-> <<4, 0>>],
     [grid |-> <<100>>, data |-> <<5>>]}

BandLists == {seq \in SeqsUpTo(BandChoices, MaxBands) : Len(seq) >= 1}

(* Target grids [cm-1]: points below, between, on and above the nodes of   *)
(* the bands.                                                              *)
TargetGrids == {<<0, 1, 2, 3>>, <<1, 6, 10, 15, 100>>, <<10, 20, 30, 100>>}

(* The functions of mt_ckd/utils.py called on their own.                   *)
(*   pc = "continuum"           the arguments are at hand                 *)
(*   pc = "spectra_returned"    BandedContinuum.spectra returned result   *)
(*   pc = "radiation_returned"  radiation_term returned result            *)
InitContinuum ==
    /\ pc = "continuum"
    /\ raised = ""
    /\ site = ""
    /\ q = GasTips
    /\ mass = <<>>
    /\ transitions = <<>>
    /\ Blank
    /\ iso_query = 0
    /\ BlankAbs
    /\ bands \in BandLists
    /\ target_grid \in TargetGrids
    /\ coeffs = <<>> /\ xsec = <<>> /\ pressure_pa = 0
    /\ BlankIo

(* BandedContinuum.spectra, lines 169-174.                                 *)
Spectra ==
    /\ pc = "continuum"
    /\ \E temperature \in {148, 296}, pressure \in {100, 300} :
          /\ t' = temperature
          /\ pressure_pa' = pressure
          /\ result' = spectra(bands, temperature, pressure, target_grid)
    /\ pc' = "spectra_returned"
    /\ UNCHANGED <<raised, site, q, iso_query, linesState, absState, coeffs, xsec,
                   bands, target_grid, ioState>>

(* radiation_term, lines 55-59, on the target grid.                        *)
RadiationTerm ==
    /\ pc = "continuum"
    /\ \E temperature \in {1, 160} :
          /\ t' = temperature
          /\ result' = radiation_term(target_grid, temperature)
    /\ pc' = "radiation_returned"
    /\ UNCHANGED <<raised, site, q, iso_query, linesState, absState, coeffs, xsec,
                   pressure_pa, bands, target_grid, ioState>>

NextContinuum ==
    \/ Spectra
    \/ RadiationTerm

SpecContinuum == InitContinuum /\ [][NextContinuum]_vars

(***************************************************************************)
(* The lines engine of c_lib/gas_optics.py called on its own.              *)
(*   pc = "c_lib"           a Gas object and a grid are at hand            *)
(*   pc = "c_lib_returned"  absorption_coefficient returned result         *)
(*   pc = "c_lib_raised"    it raised                                      *)
(***************************************************************************)
(* A grid of n points from start in steps of spacing.                      *)
UniformGrid(start, spacing, n) ==
    [g \in 1..n |-> RAdd(start, RMul(I(g - 1), spacing))]

(* Uniformly spaced grids [cm-1] of one to MaxGridPoints points: starts on *)
(* and off an integer, spacings of 1, 1/2, 1/4 and 2.                      *)
UniformGrids ==
    {UniformGrid(start, spacing, n) :
        start \in {I(0), I(1), <<1, 2>>, <<3, 2>>, <<5, 2>>},
        spacing \in {I(1), <<1, 2>>, <<1, 4>>, I(2)},
        n \in 1..MaxGridPoints}

InitCLib ==
    /\ pc = "c_lib"
    /\ raised = ""
    /\ site = ""
    /\ q = GasTips
    /\ mass = <<>>
    /\ transitions = <<>>
    /\ Blank
    /\ iso_query = 0
    /\ BlankAbs
    /\ target_grid \in UniformGrids
    /\ coeffs = <<>> /\ xsec = <<>> /\ pressure_pa = 0 /\ bands = <<>>
    /\ BlankIo

(* Gas.absorption_coefficient, lines 61-92; the library call ends with the *)
(* return code 0 or with another one, which check_return_code turns into a *)
(* ValueError.  The elements of k are a stand-in for what the library      *)
(* writes.                                                                 *)
CLibAbsorptionCoefficient ==
    /\ pc = "c_lib"
    /\ \E temperature \in {296}, pressure \in {101325}, code \in {0, 1} :
          LET size == absorption_k_size(target_grid)
          IN  /\ t' = temperature
              /\ pressure_pa' = pressure
              /\ IF size.raised # ""
                 THEN /\ pc' = "c_lib_raised"
                      /\ raised' = size.raised
                      /\ site' = "absorption_coefficient"
                      /\ result' = result
                 ELSE IF code # 0
                 THEN /\ pc' = "c_lib_raised"
                      /\ raised' = "ValueError"
                      /\ site' = "check_return_code"
                      /\ result' = result
                 ELSE /\ pc' = "c_lib_returned"
                      /\ raised' = raised
                      /\ site' = site
                      /\ result' = [g \in 1..size.value |-> I(1)]
    /\ UNCHANGED <<q, iso_query, linesState, absState, coeffs, xsec, bands,
                   target_grid, ioState>>

NextCLib == CLibAbsorptionCoefficient

SpecCLib == InitCLib /\ [][NextCLib]_vars

(***************************************************************************)
(* Helpers of the properties.                                              *)
(***************************************************************************)
(* line_profile was entered and has ended, one way or the other.           *)
LineProfileEnded ==
    \/ pc = "returned"
    \/ pc = "raised" /\ site \in {"line_profile", "brute_force"}

(* Grid index g lies within cut_off of the shifted center of line n.       *)
InWindow(g, n) ==
    /\ ~RLess(I(wavenumber[g]), RSub(center[n], I(cut_off)))
    /\ ~RLess(RAdd(center[n], I(cut_off)), I(wavenumber[g]))

LastNode == q.temperature[Len(q.temperature)]

Scale(x, a) == [g \in 1..Len(a) |-> RMul(x, a[g])]

RECURSIVE SumOfLines(_)
SumOfLines(n) ==
    IF n = 0 THEN zeros(Len(wavenumber))
    ELSE LET rest == SumOfLines(n - 1)
             one == line_profile(<<transitions[n]>>, <<s[n]>>, q, mass, t, p, vmr,
                                 wavenumber, cut_off, remove_pedestal, python_float)
         IN  [g \in 1..Len(wavenumber) |-> RAdd(rest[g], one.value[g])]

Swap(a) == <<a[2], a[1]>>

C2_ZeroOutsideWindows ==
    /\ (pc = "brute_force" \/ pc = "returned" \/ (pc = "raised" /\ site = "brute_force"))
            => \A g \in 1..Len(wavenumber) :
                   (\A n \in 1..Len(center) : ~InWindow(g, n)) => k[g] = Zero
    /\ pc = "returned"
            => \A g \in 1..Len(wavenumber) :
                   (\A n \in 1..Len(center) : ~InWindow(g, n)) => result[g] = Zero

C2_Witness ==
    /\ pc = "returned" /\ Len(center) = 2
    /\ \E g \in 1..Len(wavenumber) : \A n \in 1..Len(center) : ~InWindow(g, n)
    /\ \E g \in 1..Len(wavenumber) : ~IsNaN(result[g]) /\ result[g] # Zero

(* A state of the atmosphere the engine is meant for.                      *)
ValidPoint == t > 0 /\ ~RLess(p, Zero)

(***************************************************************************)
(* C3 (as stated): with pedestal removal, the loop body for line i lowers  *)
(* every point of the line's window by the minimum of the line's own       *)
(* contribution at the two edge points of the window, whatever the other   *)
(* lines have accumulated, and goes on to the next line.                   *)
(***************************************************************************)
C3_PedestalIsOwnMinimum ==
    [][(pc = "brute_force" /\ i < Len(center) /\ remove_pedestal /\ ValidPoint
        /\ left[i + 1] < right[i + 1] /\ (pc' # pc \/ i' # i))
       => LET n == i + 1
              own(g) == contribution(wavenumber, g, center[n], strength[n],
                                     gamma[n], alpha[n])
              pedestal == RMin(own(left[n] + 1), own(right[n]))
          IN  /\ pc' = "brute_force"
              /\ \A g \in (left[n] + 1)..right[n] :
                     k'[g] = RSub(RAdd(k[g], own(g)), pedestal)]_vars

(***************************************************************************)
(* C4 (as stated): the outcome of the line engine is the same for every    *)
(* ordering of the same transitions, with and without pedestal removal.    *)
(***************************************************************************)
C4_OrderIrrelevant ==
    (LineProfileEnded /\ Len(transitions) = 2 /\ ValidPoint)
        => LET other == line_profile(Swap(transitions), Swap(s), q, mass, t, p, vmr,
                                     wavenumber, cut_off, remove_pedestal, python_float)
           IN  /\ other.raised = raised
               /\ pc = "returned" => other.value = result

(* The part of C4 the code keeps: without pedestal removal the returned    *)
(* array does not depend on the order of the transitions.                  *)
C4_OrderIrrelevantNoPedestal ==
    (LineProfileEnded /\ Len(transitions) = 2 /\ ~remove_pedestal)
        => LET other == line_profile(Swap(transitions), Swap(s), q, mass, t, p, vmr,
                                     wavenumber, cut_off, remove_pedestal, python_float)
           IN  /\ other.raised = raised
               /\ pc = "returned" => other.value = result

(***************************************************************************)
(* C5 (as stated): a call with temperature <= 0 or pressure < 0 ends in an *)
(* error; no array is returned for such input.                             *)
(***************************************************************************)
C5_BadStateRaises ==
    pc = "returned" => (t > 0 /\ ~RLess(p, Zero))

C9_Linear ==
    /\ (Len(transitions) = 1 /\ ValidPoint
        /\ (pc = "returned" \/ (pc = "raised" /\ site = "brute_force"
                                               /\ left[1] < right[1])))
            => LET twice == line_profile(transitions, Scale(I(2), s), q, mass, t, p,
                                         vmr, wavenumber, cut_off, remove_pedestal,
                                         python_float)
               IN  /\ pc = "returned"
                   /\ twice.raised = "" /\ twice.value = Scale(I(2), result)
    /\ (pc = "returned" /\ ~remove_pedestal)
            => result = SumOfLines(Len(transitions))

(* The part of C9 the code keeps: without pedestal removal the returned    *)
(* array is linear in the strengths.                                       *)
C9_LinearNoPedestal ==
    /\ (pc = "returned" /\ Len(transitions) = 1 /\ ~remove_pedestal)
            => LET twice == line_profile(transitions, Scale(I(2), s), q, mass, t, p,
                                         vmr, wavenumber, cut_off, remove_pedestal,
                                         python_float)
               IN  twice.raised = "" /\ twice.value = Scale(I(2), result)
    /\ (pc = "returned" /\ ~remove_pedestal)
            => result = SumOfLines(Len(transitions))

(* The first and the last node of the table, and the stored row queried.   *)
FirstNode == q.temperature[1]

TipsRow == q.data[iso_query]

TipsEnded == pc \in {"tips_returned", "tips_raised"}

C8_NoErrorOutside ==
    (TipsEnded /\ (t < FirstNode \/ t > LastNode)) => pc = "tips_returned"

(***************************************************************************)
(* C8 (amended): for a temperature below the first node the function       *)
(* raises no error and returns the value at that temperature of the        *)
(* straight line through the last and the first node; for a temperature    *)
(* above the last node it raises IndexError.                               *)
(***************************************************************************)
C8_OutsideTable ==
    TipsEnded =>
        /\ t < FirstNode =>
               /\ pc = "tips_returned"
               /\ result = RAdd(I(TipsRow[Len(TipsRow)]),
                                RDiv(RMul(I(TipsRow[1] - TipsRow[Len(TipsRow)]),
                                          I(t - LastNode)),
                                     I(FirstNode - LastNode)))
        /\ t > LastNode => (pc = "tips_raised" /\ raised = "IndexError")

C8_Witness ==
    /\ pc = "tips_returned" /\ t < FirstNode
    /\ result # I(TipsRow[1]) /\ result # I(TipsRow[Len(TipsRow)])

C8_WitnessAbove == pc = "tips_raised" /\ t > LastNode

(* The attribute of a MoleculeCache that holds mechanism number m.         *)
CachedMechanism(data, m) ==
    IF m = 1 THEN data.gas
    ELSE IF m = 2 THEN data.gas_continua ELSE data.cross_section

(* A mechanism slice of zeros on the grid of the Spectroscopy object.      *)
ZeroSlice == [g \in 1..Len(self_grid) |-> 0]

NotFoundErrors ==
    {"AliasNotFoundError", "IsotopologuesNotFoundError", "TipsDataNotFoundError",
     "TransitionsNotFoundError", "CrossSectionNotFoundError", "KeyError"}

(***************************************************************************)
(* C10: a mechanism found unavailable for a gas (not-found error of the    *)
(* lines engine constructor, no continuum registered, no cross section in  *)
(* the database) is cached as None; the slice of a gas for a mechanism     *)
(* cached as None is zero at every atmospheric point, while the call runs  *)
(* and in the returned Dataset; and compute_absorption never ends with a   *)
(* not-found error or with an error of using None.                         *)
(***************************************************************************)
C10_UnavailableIsZero ==
    /\ \A name \in DOMAIN cache : \A m \in 1..3 :
           <<name, Mechanisms[m]>> \in unavailable
               => CachedMechanism(cache[name], m) = None
    /\ \A name \in DOMAIN beta \cap DOMAIN cache : \A m \in 1..3 :
           CachedMechanism(cache[name], m) = None
               => \A at \in 1..npoints : beta[name][at][m] = ZeroSlice
    /\ (pc = "abs_idle" /\ calls > 0 /\ output_format = "all")
           => \A name \in DOMAIN output.data_vars : \A m \in 1..3 :
                  <<name, Mechanisms[m]>> \in unavailable
                      => \A at \in 1..npoints :
                             output.data_vars[name][at][m] = ZeroSlice
    /\ (pc = "abs_raised" /\ site # "spectra")
           => raised \notin NotFoundErrors \cup {"AttributeError"}

C10_Witness ==
    /\ pc = "abs_idle" /\ calls = 1 /\ output_format = "all"
    /\ \E name \in DOMAIN output.data_vars :
           /\ \A m \in 1..3 : <<name, Mechanisms[m]>> \in unavailable
           /\ \A at \in 1..npoints :
                  output.data_vars[name][at] = <<ZeroSlice, ZeroSlice, ZeroSlice>>
           /\ \E other \in DOMAIN output.data_vars :
                  output.data_vars[other][1] # <<ZeroSlice, ZeroSlice, ZeroSlice>>

(***************************************************************************)
(* Helpers of the properties of compute_absorption.                        *)
(***************************************************************************)
GasSet == {atmosphere_gases[x] : x \in 1..Len(atmosphere_gases)}

(* What point_absorption does for gas name at point at with the cache      *)
(* entry data when the library call succeeds.                              *)
PointOf(data, name, at) ==
    point_absorption(<<ZeroSlice, ZeroSlice, ZeroSlice>>, data, name, at,
                     pedestal_flag, "ok", self_grid, GasSet)

(* A call with the cache c raises at some point.                           *)
RunRaises(c) ==
    \E name \in GasSet : \E at \in 1..npoints : PointOf(c[name], name, at).raised # ""

(* The Dataset a call with the cache c returns when no point raises.       *)
RunOutput(c) ==
    Dataset(output_format,
            [name \in GasSet |-> [at \in 1..npoints |-> PointOf(c[name], name, at).value]],
            atmosphere_gases, npoints, self_grid)

(* The cache entry data with mechanism m available.                        *)
WithMechanism(data, name, m) ==
    IF m = 1 THEN [data EXCEPT !.gas = [kind |-> "Gas", formula |-> name]]
    ELSE IF m = 2
    THEN [data EXCEPT !.gas_continua = [kind |-> "list", names |-> continuum_names(name)]]
    ELSE [data EXCEPT !.cross_section = [kind |-> "CrossSection", formula |-> name]]

(* A call has returned its Dataset.                                        *)
Returned == pc = "abs_idle" /\ calls > 0

(***************************************************************************)
(* C11 (as stated): the Dataset returned by compute_absorption differs     *)
(* from the Dataset of the run that differs only in that a mechanism       *)
(* absent here exists there and evaluates to zero.                         *)
(***************************************************************************)
C11_AbsentIsDistinguishable ==
    Returned =>
        \A name \in DOMAIN cache : \A m \in 1..3 :
            LET other == [cache EXCEPT ![name] = WithMechanism(cache[name], name, m)]
            IN  (/\ name \in GasSet
                 /\ DOMAIN cache = GasSet
                 /\ CachedMechanism(cache[name], m) = None
                 /\ ~RunRaises(other)
                 /\ \A at \in 1..npoints :
                        PointOf(other[name], name, at).value[m] = ZeroSlice)
                    => output # RunOutput(other)

(* The helper RunOutput gives the Dataset the call returned.               *)
RunOutputIsOutput == (Returned /\ DOMAIN cache = GasSet) => output = RunOutput(cache)

(* The arrays of output_format "all" that a call with the cache of the     *)
(* object returns: gas -> point -> mechanism -> wavenumber.                *)
AllArrays ==
    [name \in GasSet |-> [at \in 1..npoints |-> PointOf(cache[name], name, at).value]]

(* The three mechanisms of a gas added up at one point and wavenumber.     *)
GasTotal(name, at, g) ==
    AllArrays[name][at][1][g] + AllArrays[name][at][2][g] + AllArrays[name][at][3][g]

(***************************************************************************)
(* C12: a returned Dataset has the grid of the object as its wavenumber    *)
(* coordinate; with "all" it holds the mechanism arrays of every gas, with *)
(* "gas" for every gas the sum of these over the mechanisms, with "total"  *)
(* the single variable absorption, the sum of the "gas" arrays over the    *)
(* gases.                                                                  *)
(***************************************************************************)
C12_FormatsAgree ==
    Returned =>
        /\ output.wavenumber = self_grid
        /\ (output_format = "all") =>
               (output.data_vars = AllArrays /\ output.mechanism = Mechanisms)
        /\ (output_format = "gas") =>
               /\ DOMAIN output.data_vars = GasSet
               /\ \A name \in GasSet : \A at \in 1..npoints :
                      output.data_vars[name][at] =
                          [g \in 1..Len(self_grid) |-> GasTotal(name, at, g)]
        /\ (output_format = "total") =>
               /\ DOMAIN output.data_vars = {"absorption"}
               /\ \A at \in 1..npoints :
                      output.data_vars.absorption[at] =
                          [g \in 1..Len(self_grid) |->
                              SumSeq([x \in 1..Len(atmosphere_gases) |->
                                         GasTotal(atmosphere_gases[x], at, g)])]

(* A "total" Dataset of two gases in which every mechanism is nonzero for  *)
(* some gas.                                                               *)
C12_Witness ==
    /\ Returned /\ output_format = "total" /\ Len(atmosphere_gases) = 2
    /\ \A m \in 1..3 : \E name \in GasSet : AllArrays[name][1][m] # ZeroSlice
    /\ output.data_vars.absorption[1][1] > 0

(* Gas.absorption_coefficient of spectral_lines.py was called and its      *)
(* call of line_profile has begun.                                         *)
GasCallBegun == continuum_arg # ""

(* compute_absorption is past lines 148-149.                               *)
PedestalDecided == pc \in {"abs_gas", "abs_point", "abs_raised"} \/ Returned

(***************************************************************************)
(* C13 (as stated): compute_absorption hands the lines engine True for     *)
(* remove_pedestal=None exactly when continua_backend is "mt_ckd" and an   *)
(* explicit True or False unchanged, and Gas.absorption_coefficient of     *)
(* spectral_lines.py with its default continuum "mt-ckd" runs line_profile *)
(* with pedestal removal.                                                  *)
(***************************************************************************)
C13_PedestalDefault ==
    /\ PedestalDecided
           => pedestal_flag = (IF remove_pedestal_arg = "None"
                               THEN continua_backend = "mt_ckd"
                               ELSE remove_pedestal_arg = "True")
    /\ (GasCallBegun /\ continuum_arg = "mt-ckd") => remove_pedestal

(* The part of C13 about compute_absorption.                               *)
C13_ComputeAbsorptionDefault ==
    PedestalDecided
        => /\ remove_pedestal_arg = "None" => (pedestal_flag <=> continua_backend = "mt_ckd")
           /\ remove_pedestal_arg = "True" => pedestal_flag
           /\ remove_pedestal_arg = "False" => ~pedestal_flag

(* Spectroscopy was called.                                                *)
Constructed == pc # "abs_new"

C15_CacheKeyedByName ==
    /\ [](/\ DOMAIN cache \subseteq GasSet
          /\ DOMAIN constructions = DOMAIN cache
          /\ \A name \in DOMAIN constructions : constructions[name] = 1)
    /\ [][\A name \in DOMAIN cache :
              name \in DOMAIN cache' /\ cache'[name] = cache[name]]_vars

(* A second call that found the entries of two gases in the cache.         *)
C15_Witness ==
    /\ Returned /\ calls = 2 /\ Len(atmosphere_gases) = 2
    /\ DOMAIN cache = GasSet
    /\ \A name \in GasSet : constructions[name] = 1

XsecReturned == pc = "xsec_returned"

HasNegative == \E j \in 1..Len(xsec) : xsec[j] < 0

(***************************************************************************)
(* C16: when the raw cross sections of a band have a negative value and a  *)
(* sum that is not negative, calculate_xsec_fullmodel returns no negative  *)
(* value and the sum of the returned values is the sum of the raw ones.    *)
(***************************************************************************)
C16_TotalPreserved ==
    (XsecReturned /\ HasNegative /\ SumSeq(xsec) >= 0)
        => /\ Len(result) = Len(xsec)
           /\ \A j \in 1..Len(result) : ~RLess(result[j], Zero) /\ ~IsNaN(result[j])
           /\ RSumOver(result) = I(SumSeq(xsec))

(* A band with a negative value and a positive sum that was rescaled by a  *)
(* factor that is not one.                                                 *)
C16_Witness ==
    /\ XsecReturned /\ HasNegative /\ SumSeq(xsec) > 0
    /\ \E j \in 1..Len(xsec) : xsec[j] > 0 /\ RLess(result[j], I(xsec[j]))

(***************************************************************************)
(* C17 (as stated): when the sum of the raw cross sections of a band is    *)
(* negative, calculate_xsec_fullmodel returns the raw values, neither      *)
(* clipped nor rescaled.                                                   *)
(***************************************************************************)
C17_NegativeTotalLeftAsIs ==
    (XsecReturned /\ SumSeq(xsec) < 0)
        => result = [j \in 1..Len(xsec) |-> I(xsec[j])]

(* Band b evaluated by itself at its node j, in mb and times 100.          *)
NodeValue(b, j) ==
    RMul(I(100), RMul(RMul(I(bands[b].data[j]), Rat(pressure_pa, 100)), Rat(296, t)))

(* The wavenumber x lies within the native range of band b.                *)
InBand(b, x) == bands[b].grid[1] <= x /\ x <= bands[b].grid[Len(bands[b].grid)]

(* The number y lies over x on the straight line between the values of     *)
(* band b at two neighbouring nodes that enclose x.                        *)
OnBandLine(b, x, y) ==
    \E j \in 1..Len(bands[b].grid) :
        \/ bands[b].grid[j] = x /\ y = NodeValue(b, j)
        \/ /\ j < Len(bands[b].grid)
           /\ bands[b].grid[j] < x /\ x < bands[b].grid[j + 1]
           /\ RMul(RSub(y, NodeValue(b, j)), I(bands[b].grid[j + 1] - bands[b].grid[j]))
                  = RMul(RSub(NodeValue(b, j + 1), NodeValue(b, j)),
                         I(x - bands[b].grid[j]))

(* Sequences of one contribution per band whose sum is total.              *)
Contributions(g) ==
    [b \in 1..Len(bands) |->
        RMul(interp(target_grid[g], bands[b].grid,
                    band_spectra(bands[b], t, Rat(pressure_pa, 100)), Zero, Zero),
             I(100))]

(***************************************************************************)
(* C18: BandedContinuum.spectra returns one value per target point, the    *)
(* sum of one contribution per band; the contribution of a band is zero at *)
(* a point outside its native range and otherwise 100 times the linear     *)
(* interpolation of the band's spectrum, which is evaluated at the         *)
(* pressure times 0.01; a point outside every band is exactly zero.        *)
(***************************************************************************)
C18_SpectraInterpolates ==
    (pc = "spectra_returned") =>
        /\ Len(result) = Len(target_grid)
        /\ \A g \in 1..Len(target_grid) :
               /\ result[g] = RSumOver(Contributions(g))
               /\ \A b \in 1..Len(bands) :
                      IF InBand(b, target_grid[g])
                      THEN OnBandLine(b, target_grid[g], Contributions(g)[b])
                      ELSE Contributions(g)[b] = Zero
               /\ (\A b \in 1..Len(bands) : ~InBand(b, target_grid[g]))
                      => result[g] = Zero

(* Two bands, a target point between the nodes of both and a target point  *)
(* outside both.                                                           *)
C18_Witness ==
    /\ pc = "spectra_returned" /\ Len(bands) = 2
    /\ \E g \in 1..Len(target_grid) :
           /\ \A b \in 1..2 : InBand(b, target_grid[g])
           /\ \A b \in 1..2 : \A j \in 1..Len(bands[b].grid) :
                  bands[b].grid[j] # target_grid[g]
           /\ result[g] # Zero
    /\ \E g \in 1..Len(target_grid) :
           /\ \A b \in 1..2 : ~InBand(b, target_grid[g])
           /\ result[g] = Zero

(* The argument x of radiation_term at wavenumber wn and temperature t.    *)
RadiationArgument(wn) == RDiv(RMul(I(wn), SECOND_RADIATION_CONSTANT), I(t))

(* wavenumber*(1 - exp(-x))/(1 + exp(-x)).                                 *)
TanhForm(wn) ==
    RDiv(RMul(I(wn), RSub(I(1), ExpMinus(RadiationArgument(wn)))),
         RAdd(I(1), ExpMinus(RadiationArgument(wn))))

(***************************************************************************)
(* C19 (as stated): radiation_term returns 0.5*x*wavenumber where the      *)
(* argument x is at most 0.01, wavenumber*(1 - exp(-x))/(1 + exp(-x))      *)
(* where x is above 0.01 and at most 10, and the wavenumber where x is     *)
(* above 10.                                                               *)
(***************************************************************************)
C19_SmallArgumentLinear ==
    (pc = "radiation_returned") =>
        \A g \in 1..Len(target_grid) :
            LET wn == target_grid[g]
                x == RadiationArgument(wn)
            IN  result[g] = IF RLessEq(x, <<1, 100>>)
                            THEN RMul(RMul(<<1, 2>>, x), I(wn))
                            ELSE IF RLessEq(x, I(10)) THEN TanhForm(wn)
                            ELSE I(wn)

(* What the code does: the quotient form wherever x is at most 10.         *)
C19_QuotientFormUpToTen ==
    (pc = "radiation_returned") =>
        \A g \in 1..Len(target_grid) :
            result[g] = IF RLessEq(RadiationArgument(target_grid[g]), I(10))
                        THEN TanhForm(target_grid[g])
                        ELSE I(target_grid[g])

(* The call of the c_lib engine has ended and the library reported no      *)
(* error.                                                                  *)
CLibEnded ==
    \/ pc = "c_lib_returned"
    \/ pc = "c_lib_raised" /\ site # "check_return_code"

(***************************************************************************)
(* C20 (as stated): for every uniformly spaced grid, of two points or      *)
(* more, the lines engine of c_lib returns an array with exactly as many   *)
(* elements as the grid has.                                               *)
(***************************************************************************)
C20_SizedToGrid ==
    (CLibEnded /\ Len(target_grid) >= 2)
        => (pc = "c_lib_returned" /\ Len(result) = Len(target_grid))

(* What the code does for a grid that starts on an integer with a spacing  *)
(* of 1/n: at least as many elements as the grid has, and exactly as many  *)
(* when the spacing is 1.                                                  *)
C20_IntegerStartAtLeast ==
    (/\ CLibEnded /\ Len(target_grid) >= 2
     /\ target_grid[1][2] = 1
     /\ RSub(target_grid[2], target_grid[1])[1] = 1)
        => /\ pc = "c_lib_returned"
           /\ Len(result) >= Len(target_grid)
           /\ RSub(target_grid[2], target_grid[1]) = I(1)
                  => Len(result) = Len(target_grid)

(***************************************************************************)
(* pyLBL/atmosphere.py                                                     *)
(*                                                                         *)
(* A dataset is the sequence of its data variables in the order of         *)
(* data_vars; a variable is [name, attrs].  A standard name is a tuple of  *)
(* the pieces the regular expression of _gases tells apart:                *)
(* <<"mole_fraction_of_", molecule, "_in_air">> or a single piece.         *)
(***************************************************************************)
(* Data variables of a dataset.                                            *)
MaxVars == 3

_standard_name_to_formula ==
    [carbon_dioxide |-> "CO2", carbon_monoxide |-> "CO", cfc11 |-> "CFC11",
     cfc12 |-> "CFC12", methane |-> "CH4", nitrogen |-> "N2",
     nitrous_oxide |-> "N2O", oxygen |-> "O2", ozone |-> "O3",
     water_vapor |-> "H2O"]

MoleFraction(gas) == <<"mole_fraction_of_", gas, "_in_air">>

(* var.attrs["standard_name"] raises KeyError.                             *)
NoStandardName(var) == "standard_name" \notin DOMAIN var.attrs

(* The first element of a non-empty set of positions.                      *)
First(S) == CHOOSE n \in S : \A m \in S : n <= m

(* A search without the handler of lines 67-68: a variable that has no     *)
(* standard_name ends it with KeyError.                                    *)
_find_variable_no_handler(ds, standard_name) ==
    LET stops == {n \in 1..Len(ds) :
                     \/ NoStandardName(ds[n])
                     \/ ds[n].attrs["standard_name"] = standard_name}
    IN  IF stops = {} THEN [raised |-> "ValueError", value |-> 0]
        ELSE IF NoStandardName(ds[First(stops)])
        THEN [raised |-> "KeyError", value |-> 0]
        ELSE [raised |-> "", value |-> First(stops)]

(* _find_variable, lines 63-69: [raised, value], value the position of the *)
(* variable found.                                                         *)
_find_variable(ds, standard_name) ==
    LET hits == {n \in 1..Len(ds) :
                    /\ ~NoStandardName(ds[n])
                    /\ ds[n].attrs["standard_name"] = standard_name}
    IN  IF hits = {} THEN [raised |-> "ValueError", value |-> 0]
        ELSE [raised |-> "", value |-> First(hits)]

(* _gases, line 83: the variable's standard name matches the pattern.      *)
IsMoleFraction(var) ==
    /\ ~NoStandardName(var)
    /\ Len(var.attrs["standard_name"]) = 3
    /\ var.attrs["standard_name"][1] = "mole_fraction_of_"
    /\ var.attrs["standard_name"][3] = "_in_air"

(* _gases, lines 81-87, collected into the dictionary of line 43:          *)
(* [raised, value]; a molecule that the table of lines 7-18 does not hold  *)
(* raises KeyError, a later variable of the same gas replaces the earlier. *)
_gases(ds) ==
    LET found == {n \in 1..Len(ds) : IsMoleFraction(ds[n])}
        gas_of(n) == ds[n].attrs["standard_name"][2]
        known(n) == gas_of(n) \in DOMAIN _standard_name_to_formula
        formulae == {_standard_name_to_formula[gas_of(n)] : n \in {m \in found : known(m)}}
    IN  IF \E n \in found : ~known(n)
        THEN [raised |-> "KeyError", value |-> EmptyMap]
        ELSE [raised |-> "",
              value |-> [f \in formulae |->
                            CHOOSE n \in found :
                                /\ _standard_name_to_formula[gas_of(n)] = f
                                /\ \A m \in found :
                                       _standard_name_to_formula[gas_of(m)] = f => m <= n]]

(* dataset[name]: [raised, value].                                         *)
dataset_getitem(ds, name) ==
    LET hits == {n \in 1..Len(ds) : ds[n].name = name}
    IN  IF hits = {} THEN [raised |-> "KeyError", value |-> 0]
        ELSE [raised |-> "", value |-> First(hits)]

NoAtmosphere == [pressure |-> 0, temperature |-> 0, gases |-> EmptyMap]

(* Atmosphere.__init__, lines 37-47: [raised, site, value]; the attributes *)
(* of the object are positions of variables of the dataset.                *)
Atmosphere(ds, mp) ==
    IF mp.is_none
    THEN LET pressure == _find_variable(ds, <<"air_pressure">>)
             temperature == _find_variable(ds, <<"air_temperature">>)
             gases == _gases(ds)
         IN  IF pressure.raised # ""
             THEN [raised |-> pressure.raised, site |-> "_find_variable",
                   value |-> NoAtmosphere]
             ELSE IF temperature.raised # ""
             THEN [raised |-> temperature.raised, site |-> "_find_variable",
                   value |-> NoAtmosphere]
             ELSE IF gases.raised # ""
             THEN [raised |-> gases.raised, site |-> "_gases", value |-> NoAtmosphere]
             ELSE [raised |-> "", site |-> "",
                   value |-> [pressure |-> pressure.value,
                              temperature |-> temperature.value,
                              gases |-> gases.value]]
    ELSE LET pressure == dataset_getitem(ds, mp.play)
             temperature == dataset_getitem(ds, mp.tlay)
             gases == [f \in DOMAIN mp.mole_fraction |->
                          dataset_getitem(ds, mp.mole_fraction[f])]
         IN  IF \/ pressure.raised # "" \/ temperature.raised # ""
                \/ \E f \in DOMAIN gases : gases[f].raised # ""
             THEN [raised |-> "KeyError", site |-> "__init__", value |-> NoAtmosphere]
             ELSE [raised |-> "", site |-> "",
                   value |-> [pressure |-> pressure.value,
                              temperature |-> temperature.value,
                              gases |-> [f \in DOMAIN gases |-> gases[f].value]]]

(* The attrs of a data variable: with a standard name, or with units only. *)
VariableAttrs ==
    {[units |-> "1"]}
    \cup {[units |-> "1", standard_name |-> sn] :
             sn \in {<<"air_pressure">>, <<"air_temperature">>,
                     <<"sea_surface_temperature">>, MoleFraction("water_vapor"),
                     MoleFraction("argon")}}

VariableNames == [n \in 1..(MaxVars + 1) |-> <<"var", n>>]

Datasets ==
    UNION {{[n \in 1..num |-> [name |-> VariableNames[n], attrs |-> a[n]]] :
               a \in [1..num -> VariableAttrs]} :
           num \in 0..MaxVars}

(* User mappings: of the first three variables, and one naming a variable  *)
(* under play that stands second.                                          *)
Mappings ==
    {NoMapping,
     [is_none |-> FALSE, play |-> VariableNames[1], tlay |-> VariableNames[2],
      mole_fraction |-> [H2O |-> VariableNames[3]]],
     [is_none |-> FALSE, play |-> VariableNames[2], tlay |-> VariableNames[1],
      mole_fraction |-> EmptyMap]}

(* Atmosphere built from a dataset.                                        *)
(*   pc = "atm_new"     a dataset exists                                   *)
(*   pc = "atm_object"  Atmosphere(...) returned the object result        *)
(*   pc = "atm_raised"  it raised                                          *)
InitAtmosphere ==
    /\ pc = "atm_new"
    /\ raised = ""
    /\ site = ""
    /\ q = GasTips
    /\ mass = <<>>
    /\ transitions = <<>>
    /\ Blank
    /\ iso_query = 0
    /\ BlankAbs
    /\ BlankFunctions
    /\ dataset \in Datasets
    /\ mapping = NoMapping
    /\ BlankReader
    /\ BlankParser
    /\ BlankPairs
    /\ BlankDatabase

AtmosphereInit ==
    /\ pc = "atm_new"
    /\ \E mp \in Mappings :
          LET out == Atmosphere(dataset, mp)
          IN  /\ mapping' = mp
              /\ raised' = out.raised
              /\ site' = out.site
              /\ result' = out.value
              /\ pc' = IF out.raised # "" THEN "atm_raised" ELSE "atm_object"
    /\ UNCHANGED <<q, t, iso_query, linesState, absState, funcState, dataset,
                   readerState, parserState, pairState, databaseState>>

NextAtmosphere == AtmosphereInit

SpecAtmosphere == InitAtmosphere /\ [][NextAtmosphere]_vars

HasStandardName(standard_name) ==
    \E n \in 1..Len(dataset) :
        /\ ~NoStandardName(dataset[n])
        /\ dataset[n].attrs["standard_name"] = standard_name

AtmosphereEnded == pc \in {"atm_object", "atm_raised"}

(* C21: Atmosphere built without a mapping raises ValueError when no       *)
(* variable of the dataset has the standard name air_pressure, or none has *)
(* air_temperature; a variable without a standard_name attribute is passed *)
(* over: it raises nothing (the only other error is the KeyError of _gases *)
(* for a mole fraction of a molecule outside its table), and the pressure  *)
(* and the temperature found are the first variables carrying the name.    *)
C21_MissingStandardName ==
    (AtmosphereEnded /\ mapping.is_none) =>
        /\ (~HasStandardName(<<"air_pressure">>) \/ ~HasStandardName(<<"air_temperature">>))
               => (pc = "atm_raised" /\ raised = "ValueError")
        /\ (HasStandardName(<<"air_pressure">>) /\ HasStandardName(<<"air_temperature">>))
               => IF \E n \in 1..Len(dataset) :
                         /\ ~NoStandardName(dataset[n])
                         /\ dataset[n].attrs["standard_name"] = MoleFraction("argon")
                  THEN pc = "atm_raised" /\ raised = "KeyError" /\ site = "_gases"
                  ELSE /\ pc = "atm_object"
                       /\ dataset[result.pressure].attrs["standard_name"] = <<"air_pressure">>
                       /\ \A n \in 1..(result.pressure - 1) :
                              \/ NoStandardName(dataset[n])
                              \/ dataset[n].attrs["standard_name"] # <<"air_pressure">>
                       /\ dataset[result.temperature].attrs["standard_name"]
                              = <<"air_temperature">>

(* A dataset whose first variable has no standard_name and which has no    *)
(* pressure variable was refused with ValueError.                          *)
C21_Witness ==
    /\ pc = "atm_raised" /\ raised = "ValueError" /\ mapping.is_none
    /\ Len(dataset) >= 2
    /\ NoStandardName(dataset[1])
    /\ HasStandardName(<<"air_temperature">>)
    /\ ~HasStandardName(<<"air_pressure">>)

(***************************************************************************)
(* pyLBL/tips.py and pyLBL/webapi/tips_api.py: the block-wise line reader. *)
(*                                                                         *)
(* A string is the sequence of its characters; NL is the newline.          *)
(***************************************************************************)
(* Characters of a response.                                               *)
MaxStream == 5

(* Largest block_size handed to the reader.                                *)
MaxBlock == 3

NL == "\n"

(* str.split("\n"): the pieces between the newlines, at least one.         *)
RECURSIVE split(_)
split(string) ==
    IF \A n \in 1..Len(string) : string[n] # NL THEN <<string>>
    ELSE LET n == CHOOSE m \in 1..Len(string) :
                      string[m] = NL /\ \A j \in 1..(m - 1) : string[j] # NL
         IN  <<SubSeq(string, 1, n - 1)>> \o split(SubSeq(string, n + 1, Len(string)))

(* lines[:-1].                                                             *)
AllButLast(lines) == SubSeq(lines, 1, Len(lines) - 1)

(* response.read(block_size) after off bytes have been read.               *)
read(response, off, size) ==
    SubSeq(response, off + 1, IF off + size > Len(response) THEN Len(response) ELSE off + size)

(* One pass of the loop of ascii_table_records (tips.py lines 27-48) and   *)
(* of _ascii_table_records (tips_api.py lines 45-69), which differ in the  *)
(* handler of lines 58-61: [raised, done, record, yields].                 *)
read_block(response, size, which, off, rec) ==
    LET block == read(response, off, size)
        pieces == split(block)
        lines == IF pieces[Len(pieces)] = <<>> THEN AllButLast(pieces) ELSE pieces
        complete == AllButLast(lines)
        inner == [n \in 1..Len(complete) |->
                     IF n = 1 THEN rec \o complete[n] ELSE complete[n]]
        carried == IF complete = <<>> THEN rec ELSE <<>>
    IN  IF Len(block) # size
        THEN IF lines = <<>>
             THEN IF which = "tips"
                  THEN [raised |-> "IndexError", done |-> TRUE, record |-> carried,
                        yields |-> inner]
                  ELSE [raised |-> "", done |-> TRUE, record |-> carried,
                        yields |-> Append(inner, carried)]
             ELSE [raised |-> "", done |-> TRUE, record |-> carried,
                   yields |-> Append(inner, carried \o lines[Len(lines)])]
        ELSE IF block[Len(block)] = NL
        THEN [raised |-> "", done |-> FALSE, record |-> <<>>,
              yields |-> Append(inner, lines[Len(lines)])]
        ELSE [raised |-> "", done |-> FALSE, record |-> lines[Len(lines)],
              yields |-> inner]

(* The generator run to its end: [raised, yields].                         *)
RECURSIVE ascii_table_records_from(_, _, _, _, _)
ascii_table_records_from(response, size, which, off, rec) ==
    LET step == read_block(response, size, which, off, rec)
        rest == ascii_table_records_from(response, size, which, off + size, step.record)
    IN  IF step.done THEN [raised |-> step.raised, yields |-> step.yields]
        ELSE [raised |-> rest.raised, yields |-> step.yields \o rest.yields]

ascii_table_records(response, size, which) ==
    ascii_table_records_from(response, size, which, 0, <<>>)

Readers == {"tips", "tips_api"}

Streams == SeqsUpTo({"a", "b", NL}, MaxStream)

(* The line reader on its own.                                             *)
(*   pc = "reader"         inside the while loop, before the next read     *)
(*   pc = "reader_done"    the generator is exhausted                      *)
(*   pc = "reader_raised"  the generator raised                            *)
InitReader ==
    /\ pc = "reader"
    /\ raised = ""
    /\ site = ""
    /\ q = GasTips
    /\ mass = <<>>
    /\ transitions = <<>>
    /\ Blank
    /\ iso_query = 0
    /\ BlankAbs
    /\ BlankFunctions
    /\ BlankAtm
    /\ BlankParser
    /\ BlankPairs
    /\ BlankDatabase
    /\ stream \in Streams
    /\ block_size \in 1..MaxBlock
    /\ reader \in Readers
    /\ offset = 0 /\ record = <<>> /\ reader_done = FALSE /\ yielded = <<>>

(* One pass of the while loop.                                             *)
ReadBlock ==
    /\ pc = "reader"
    /\ LET step == read_block(stream, block_size, reader, offset, record)
       IN  /\ offset' = offset + Len(read(stream, offset, block_size))
           /\ record' = step.record
           /\ reader_done' = step.done
           /\ yielded' = yielded \o step.yields
           /\ raised' = step.raised
           /\ site' = IF step.raised # "" THEN "ascii_table_records" ELSE site
           /\ pc' = IF step.raised # "" THEN "reader_raised"
                    ELSE IF step.done THEN "reader_done" ELSE "reader"
    /\ UNCHANGED <<q, t, result, iso_query, linesState, absState, funcState, atmState,
                   parserState, stream, block_size, reader, pairState, databaseState>>

NextReader == ReadBlock

SpecReader == InitReader /\ [][NextReader]_vars

(* The newline-delimited lines of a string: a final newline ends the last  *)
(* line and opens no further one.                                          *)
StreamLines(string) ==
    LET pieces == split(string)
    IN  IF pieces[Len(pieces)] = <<>> THEN AllButLast(pieces) ELSE pieces

(* C25: for every stream and every block_size >= 1 the reader raises       *)
(* nothing and, once exhausted, has yielded exactly the lines of the       *)
(* stream, in order and each once.                                         *)
C25_YieldsTheLines ==
    /\ pc # "reader_raised"
    /\ pc = "reader_done" => yielded = StreamLines(stream)

(* What the reader does deliver: a non-empty stream shorter than one block *)
(* is yielded line by line.                                                *)
C25_SingleBlock ==
    (pc = "reader_done" /\ stream # <<>> /\ Len(stream) < block_size)
        => yielded = StreamLines(stream)

(***************************************************************************)
(* pyLBL/tips.py and pyLBL/webapi/tips_api.py: the TIPS table parser.      *)
(***************************************************************************)
(* Lines of a TIPS table.                                                  *)
MaxTableLines == 4

Alnum == {"C", "H", "K", "N", "O", "Q", "T", "c", "0", "1", "2", "5"}

Digits == {"0", "1", "2", "5"}

(* The string without its leading white space: what \s* leaves.            *)
RECURSIVE lstrip(_)
lstrip(string) ==
    IF string # <<>> /\ string[1] = " " THEN lstrip(Tail(string)) ELSE string

StartsWith(string, prefix) ==
    Len(string) >= Len(prefix) /\ SubSeq(string, 1, Len(prefix)) = prefix

(* match(r"\s*[A-Za-z0-9]+$", line) of tips.py line 166;                   *)
(* match(r"\s*[A-Za-z0-9+]+$", line) of tips_api.py line 108.              *)
is_header(line, which) ==
    LET name == lstrip(line)
        class == IF which = "tips_api" THEN Alnum \cup {"+"} ELSE Alnum
    IN  name # <<>> /\ \A n \in 1..Len(name) : name[n] \in class

(* match(r"\s*T / K", line).                                               *)
is_column_header(line) == StartsWith(lstrip(line), <<"T", " ", "/", " ", "K">>)

(* sum(x == "Q" for x in line).                                            *)
count_Q(line) == Cardinality({n \in 1..Len(line) : line[n] = "Q"})

(* The pattern pattern$ matched at the start of the string: a character is *)
(* a literal, and a "+" after it turns it into one or more repetitions.    *)
RECURSIVE re_match(_, _)
re_match(pattern, string) ==
    IF pattern = <<>> THEN string = <<>>
    ELSE IF string = <<>> \/ string[1] # pattern[1] THEN FALSE
    ELSE IF Len(pattern) >= 2 /\ pattern[2] = "+"
    THEN \/ re_match(SubSeq(pattern, 3, Len(pattern)), Tail(string))
         \/ re_match(pattern, Tail(string))
    ELSE re_match(Tail(pattern), Tail(string))

(* match(r"\s*{}$".format(molecule), line): the molecule is the pattern.   *)
is_molecule(name, line) == re_match(name, lstrip(line))

(* line.split(): the words between runs of white space.                    *)
RECURSIVE words(_)
words(string) ==
    LET rest == lstrip(string)
        stop == IF \A n \in 1..Len(rest) : rest[n] # " " THEN Len(rest) + 1
                ELSE CHOOSE n \in 1..Len(rest) :
                         rest[n] = " " /\ \A m \in 1..(n - 1) : rest[m] # " "
    IN  IF rest = <<>> THEN <<>>
        ELSE <<SubSeq(rest, 1, stop - 1)>> \o words(SubSeq(rest, stop, Len(rest)))

(* float32(x) raises ValueError for a word that is no number.              *)
is_number(word) == word # <<>> /\ \A n \in 1..Len(word) : word[n] \in Digits \cup {"."}

(* The row of line 169 (tips.py) and 111 (tips_api.py): [raised, value].   *)
table_row(line, num) ==
    LET found == words(line)
        taken == SubSeq(found, 1, IF Len(found) < num + 1 THEN Len(found) ELSE num + 1)
    IN  IF \E n \in 1..Len(taken) : ~is_number(taken[n])
        THEN [raised |-> "ValueError", value |-> <<>>]
        ELSE [raised |-> "", value |-> taken]

(* The error of lines 177-178 (tips.py) and 119-120 (tips_api.py).         *)
not_found_error(which) == IF which = "tips" THEN "MoleculeNotFound" ELSE "NoMoleculeError"

(* Texts of table lines: a comment, the headers of two molecules, the      *)
(* column header of a molecule with one isotopologue, a data row, an empty *)
(* line.                                                                   *)
TableLines ==
    {<<"c", " ", "N", "O">>, <<"N", "O">>, <<"N", "O", "+">>,
     <<"T", " ", "/", " ", "K", " ", "Q">>, <<"1", " ", "2", ".", "5">>, <<>>}

RECURSIVE join_lines(_)
join_lines(lines) ==
    IF lines = <<>> THEN <<>> ELSE Head(lines) \o <<NL>> \o join_lines(Tail(lines))

(* Responses: tables of up to MaxTableLines lines, each ended by a newline.*)
Tables == {join_lines(lines) : lines \in SeqsUpTo(TableLines, MaxTableLines)}

(* Molecules asked for.                                                    *)
Molecules == {<<"N", "O">>, <<"N", "O", "+">>, <<"C", "O">>}

(* Block sizes: one that cuts the tables and one that holds every table.   *)
TableBlockSizes == {8, 64}

(* The generator records(response, molecule) driven to its end.            *)
(*   pc = "records"         inside the for loop, before the next line      *)
(*   pc = "records_done"    the generator is exhausted                     *)
(*   pc = "records_raised"  the generator raised                           *)
InitRecords ==
    /\ pc = "records"
    /\ raised = ""
    /\ site = ""
    /\ q = GasTips
    /\ mass = <<>>
    /\ transitions = <<>>
    /\ Blank
    /\ iso_query = 0
    /\ BlankAbs
    /\ BlankFunctions
    /\ BlankAtm
    /\ BlankPairs
    /\ BlankDatabase
    /\ stream \in Tables
    /\ block_size \in TableBlockSizes
    /\ reader \in Readers
    /\ offset = 0 /\ record = <<>> /\ reader_done = FALSE /\ yielded = <<>>
    /\ molecule \in Molecules
    /\ found_molecule = FALSE /\ num_isotopologues = 0 /\ rows = <<>>
    /\ line_index = 0

(* The line reader asked for its next line when it has none ready: one     *)
(* pass of its while loop.  An error of the reader ends records too.       *)
RecordsRead ==
    /\ pc = "records"
    /\ line_index = Len(yielded)
    /\ ~reader_done
    /\ LET step == read_block(stream, block_size, reader, offset, record)
       IN  /\ offset' = offset + Len(read(stream, offset, block_size))
           /\ record' = step.record
           /\ reader_done' = step.done
           /\ yielded' = yielded \o step.yields
           /\ IF step.raised # ""
              THEN /\ pc' = "records_raised"
                   /\ raised' = step.raised
                   /\ site' = "ascii_table_records"
              ELSE /\ pc' = pc /\ raised' = raised /\ site' = site
    /\ UNCHANGED <<q, t, result, iso_query, linesState, absState, funcState, atmState,
                   stream, block_size, reader, parserState, pairState, databaseState>>

(* The reader is exhausted: the statements after the loop, tips.py lines   *)
(* 177-178 and tips_api.py lines 119-120.                                  *)
RecordsEnd ==
    /\ pc = "records"
    /\ line_index = Len(yielded)
    /\ reader_done
    /\ IF found_molecule
       THEN pc' = "records_done" /\ raised' = raised /\ site' = site
       ELSE pc' = "records_raised" /\ raised' = not_found_error(reader)
            /\ site' = "records"
    /\ UNCHANGED <<q, t, result, iso_query, linesState, absState, funcState, ioState>>

(* The body of the for loop for one line, tips.py lines 165-176 and        *)
(* tips_api.py lines 107-118.  A row is kept with the number of the line   *)
(* it was made from.                                                       *)
RecordsLine ==
    /\ pc = "records"
    /\ line_index < Len(yielded)
    /\ LET line == yielded[line_index + 1]
           row == table_row(line, num_isotopologues)
           breaks == found_molecule /\ is_header(line, reader)
           yields == found_molecule /\ ~breaks /\ num_isotopologues > 0
           found == IF found_molecule \/ StartsWith(line, <<"c">>) THEN found_molecule
                    ELSE is_molecule(molecule, line)
       IN  /\ line_index' = line_index + 1
           /\ found_molecule' = found
           /\ num_isotopologues' =
                  IF found_molecule /\ ~breaks /\ ~yields /\ is_column_header(line)
                  THEN count_Q(line) ELSE num_isotopologues
           /\ rows' = IF yields /\ row.raised = "" THEN Append(rows, [line |-> line_index + 1, value |-> row.value])
                      ELSE rows
           /\ IF yields /\ row.raised # ""
              THEN pc' = "records_raised" /\ raised' = row.raised /\ site' = "records"
              ELSE IF breaks THEN pc' = "records_done" /\ raised' = "" /\ site' = ""
              ELSE pc' = pc /\ raised' = raised /\ site' = site
    /\ UNCHANGED <<q, t, result, iso_query, linesState, absState, funcState, atmState,
                   readerState, molecule, pairState, databaseState>>

NextRecords ==
    \/ RecordsRead
    \/ RecordsLine
    \/ RecordsEnd

SpecRecords == InitRecords /\ [][NextRecords]_vars

(* The line is the header of the molecule asked for.                       *)
IsHeaderOf(name, line) == lstrip(line) = name

RecordsEnded == pc \in {"records_done", "records_raised"}

(* C22: every row comes from a line after the header line of the molecule  *)
(* asked for and after its "T / K" line, with no molecule header in        *)
(* between; when no line of the stream is the header of the molecule, no   *)
(* row is yielded and the generator ends with the not-found error.         *)
C22_RowsFollowHeader ==
    /\ \A r \in 1..Len(rows) :
           \E h, c \in 1..Len(yielded) :
               /\ h < c /\ c < rows[r].line
               /\ IsHeaderOf(molecule, yielded[h])
               /\ is_column_header(yielded[c])
               /\ \A j \in (h + 1)..rows[r].line : ~is_header(yielded[j], "tips_api")
    /\ (\A n \in 1..Len(StreamLines(stream)) : ~IsHeaderOf(molecule, StreamLines(stream)[n]))
           => /\ rows = <<>>
              /\ RecordsEnded => (pc = "records_raised" /\ raised = not_found_error(reader))

(* What the parser does deliver: with the reader of tips_api.py, a         *)
(* molecule whose name holds no "+" and a table read in one incomplete     *)
(* block, the rows follow the header and a table without the header gives  *)
(* the not-found error.                                                    *)
C22_PlainNameOneBlock ==
    (/\ reader = "tips_api"
     /\ \A n \in 1..Len(molecule) : molecule[n] # "+"
     /\ Len(stream) < block_size)
        => C22_RowsFollowHeader

(***************************************************************************)
(* Further properties of the line engine.                                  *)
(***************************************************************************)
(* The arrays of line_profile exist: brute_force was entered.              *)
ArraysBuilt ==
    \/ pc \in {"brute_force", "returned"}
    \/ pc = "raised" /\ site = "brute_force"

(* doppler_broadened_halfwidth at a wavenumber that is a fraction.         *)
DopplerAt(temperature, m, v) ==
    IF IsNaN(v) \/ m = 0 \/ temperature * m < 0 THEN NaN
    ELSE I(Isqrt((v[1] * v[1] * Abs(temperature))
                 \div (v[2] * v[2] * Abs(m) * DopplerUnit)))

MassOf(n) == mass_lookup(mass, transitions[n].local_iso_id).value

(* C23: the Doppler half-width of every line is computed from the          *)
(* pressure-shifted center nu0 + delta_air*P, the center of the window and *)
(* of the distances handed to the Voigt profile.                           *)
C23_DopplerFromShiftedCenter ==
    (ArraysBuilt /\ ValidPoint)
        => \A n \in 1..Len(center) : alpha[n] = DopplerAt(t, MassOf(n), center[n])

(* What the code does compute: the Doppler half-width of the database      *)
(* wavenumber nu0, while the window bounds come from the shifted center.   *)
C23_DopplerFromDatabaseCenter ==
    ArraysBuilt
        => \A n \in 1..Len(center) :
               /\ alpha[n] = doppler_broadened_halfwidth(t, MassOf(n), transitions[n].nu)
               /\ center[n] = RAdd(I(transitions[n].nu), RMul(I(transitions[n].delta_air), p))
               /\ left[n] = window_left(wavenumber, center[n], cut_off)
               /\ right[n] = window_right(wavenumber, center[n], cut_off)

(* The call came through Gas.absorption_coefficient of a Gas object.       *)
ThroughGas == continuum_arg # ""

(* C24: for a Gas built from database strengths S, an evaluation at the    *)
(* reference temperature 296 K hands brute_force the strengths S: the      *)
(* correction applied in Gas.__init__ and the division in line_profile     *)
(* cancel for every isotopologue, lower-state energy and line center.      *)
C24_ReferenceTemperatureCancels ==
    (ArraysBuilt /\ ThroughGas /\ t = TIPS_REFERENCE_TEMPERATURE)
        => \A n \in 1..Len(strength) : strength[n] = I(transitions[n].sw)

(* Two lines of different isotopologues, one with a lower-state energy,    *)
(* were evaluated at 296 K.                                                *)
C24_Witness ==
    /\ pc = "returned" /\ ThroughGas /\ t = TIPS_REFERENCE_TEMPERATURE
    /\ Len(transitions) = 2
    /\ transitions[1].local_iso_id # transitions[2].local_iso_id
    /\ \E n \in 1..2 : transitions[n].elower > 0
    /\ \A n \in 1..2 : strength[n] = I(transitions[n].sw) /\ s[n] # strength[n]

NonNegative(x) == ~IsNaN(x) /\ x[1] >= 0

C27_AccumulatedNonNegative ==
    (ArraysBuilt /\ ValidPoint /\ \A n \in 1..Len(strength) : NonNegative(strength[n]))
        => /\ \A g \in 1..Len(wavenumber) : NonNegative(k[g])
           /\ pc = "returned" => \A g \in 1..Len(wavenumber) : NonNegative(result[g])

(* C28 (as stated): a line whose window holds no point of a non-empty grid *)
(* leaves the accumulated array as it is and raises nothing, with and      *)
(* without pedestal removal.                                               *)
C28_EmptyWindowIgnored ==
    [][(/\ pc = "brute_force" /\ i < Len(center) /\ ValidPoint
        /\ wavenumber # <<>>
        /\ left[i + 1] = right[i + 1]
        /\ (pc' # pc \/ i' # i))
       => (pc' = "brute_force" /\ k' = k)]_vars

(* What the code keeps: without pedestal removal such a line is passed     *)
(* over.                                                                   *)
C28_EmptyWindowIgnoredNoPedestal ==
    [][(/\ pc = "brute_force" /\ i < Len(center) /\ ~remove_pedestal
        /\ left[i + 1] = right[i + 1]
        /\ (pc' # pc \/ i' # i))
       => (pc' = "brute_force" /\ k' = k /\ i' = i + 1)]_vars

(* The loop over the points is working on a gas whose cache entry holds a  *)
(* lines engine and no continuum.                                          *)
LinesWithoutContinuum ==
    /\ pc = "abs_point"
    /\ cache[atmosphere_gases[gas_index]].gas # None
    /\ cache[atmosphere_gases[gas_index]].gas_continua = None

(***************************************************************************)
(* C29 (as stated): compute_absorption removes the pedestal from the lines *)
(* of a gas only when a continuum is active for that gas; with the         *)
(* argument remove_pedestal left at None, a gas whose cached gas_continua  *)
(* is None has its lines computed with remove_pedestal=False.              *)
(***************************************************************************)
C29_PedestalOnlyWithContinuum ==
    (LinesWithoutContinuum /\ remove_pedestal_arg = "None") => ~pedestal_flag

(* What the code does: the value handed to the lines engine of every gas   *)
(* is the one decided before the loop over the gases, whatever the cache   *)
(* entry of the gas holds.                                                 *)
C29_PedestalSameForEveryGas ==
    (pc = "abs_point" /\ remove_pedestal_arg = "None")
        => (pedestal_flag <=> continua_backend = "mt_ckd")

(***************************************************************************)
(* The body of the loop over the atmospheric points of compute_absorption, *)
(* high_level_api.py lines 162-188, with the (gas, point) pairs taken in   *)
(* any order and their statements interleaved: every gas has its zeroed    *)
(* slices and its cache entry, and a step runs the next of the three       *)
(* mechanism blocks of some pair.                                          *)
(*   pc = "pairs"           some block of some pair is still to run        *)
(*   pc = "pairs_raised"    a block raised                                 *)
(*   pc = "pairs_returned"  the Dataset was put together                   *)
(***************************************************************************)

(* Every pair stores into the slices of the first point.                   *)
unravel_index_first(at) == 1

(* compute_absorption, lines 166, 173, 178 and 187: the slices of point i  *)
(* are the ones at index unravel_index(i, t.data.shape).                   *)
unravel_index(at) == at

(* The cache entry data as block m of the loop body sees it: the block     *)
(* tests its own attribute and no other one.                               *)
only(data, m) ==
    [gas |-> IF m = 1 THEN data.gas ELSE None,
     gas_continua |-> IF m = 2 THEN data.gas_continua ELSE None,
     cross_section |-> IF m = 3 THEN data.cross_section ELSE None]

(* MoleculeCache.__init__, lines 36-54: the entries the cache can hold for *)
(* a gas under the back-ends lb and cb.                                    *)
CacheEntries(name, lb, cb) ==
    {[gas |-> d.gas, gas_continua |-> d.gas_continua,
      cross_section |-> d.cross_section] :
        d \in {x \in {MoleculeCache(name, lo, continua(cb), co) :
                         lo \in lines_engine_outcomes(lb),
                         co \in database_arts_crossfit_outcomes} : x.raised = ""}}

InitPairs ==
    /\ pc = "pairs"
    /\ raised = ""
    /\ site = ""
    /\ q = GasTips
    /\ t = 0
    /\ result = <<>>
    /\ mass = <<>>
    /\ transitions = <<>>
    /\ Blank
    /\ iso_query = 0
    /\ atmosphere_gases \in AtmosphereGasLists
    /\ npoints \in 1..MaxPoints
    /\ self_grid \in SpectroscopyGrids
    /\ lines_backend \in LinesBackends
    /\ continua_backend \in ContinuaBackends
    /\ cross_sections_backend \in CrossSectionsBackends
    /\ cache \in {c \in [GasSet -> UNION {CacheEntries(name, lines_backend,
                                                        continua_backend) :
                                             name \in GasSet}] :
                     \A name \in GasSet :
                        c[name] \in CacheEntries(name, lines_backend, continua_backend)}
    /\ output_format \in OutputFormats
    /\ remove_pedestal_arg \in {"None", "True", "False"}
    /\ pedestal_flag = (IF remove_pedestal_arg = "None" THEN continua_backend = "mt_ckd"
                        ELSE remove_pedestal_arg = "True")
    /\ beta = [name \in GasSet |-> [at \in 1..npoints |-> <<ZeroSlice, ZeroSlice, ZeroSlice>>]]
    /\ gas_index = 0
    /\ point = 0
    /\ output = EmptyMap
    /\ calls = 1
    /\ unavailable = {}
    /\ constructions = EmptyMap
    /\ BlankFunctions
    /\ BlankAtm
    /\ BlankReader
    /\ BlankParser
    /\ BlankDatabase
    /\ progress = [pair \in GasSet \X (1..npoints) |-> 0]

(* compute_absorption, lines 169-174, 177-181 or 184-188: the next block   *)
(* of one pair.                                                            *)
PairMechanism ==
    /\ pc = "pairs"
    /\ \E pair \in DOMAIN progress :
          /\ progress[pair] < 3
          /\ LET name == pair[1]
                 at == pair[2]
                 m == progress[pair] + 1
                 j == unravel_index(at)
                 step == point_absorption(beta[name][j], only(cache[name], m), name,
                                          at, pedestal_flag, "ok", self_grid, GasSet)
             IN  IF step.raised # ""
                 THEN /\ pc' = "pairs_raised"
                      /\ raised' = step.raised
                      /\ site' = step.site
                      /\ UNCHANGED <<beta, progress>>
                 ELSE /\ beta' = [beta EXCEPT ![name][j] = step.value]
                      /\ progress' = [progress EXCEPT ![pair] = m]
                      /\ UNCHANGED <<pc, raised, site>>
    /\ UNCHANGED <<atmosphere_gases, npoints, lines_backend, continua_backend,
                   cross_sections_backend, self_grid, cache, output_format,
                   remove_pedestal_arg, pedestal_flag, gas_index, point, output, calls,
                   unavailable, constructions>>
    /\ UNCHANGED <<q, t, result, iso_query, linesState, funcState, atmState,
                   readerState, parserState, databaseState>>

(* compute_absorption, lines 190-203, once every block of every pair ran.  *)
PairsCombine ==
    /\ pc = "pairs"
    /\ \A pair \in DOMAIN progress : progress[pair] = 3
    /\ output' = Dataset(output_format, beta, atmosphere_gases, npoints, self_grid)
    /\ pc' = "pairs_returned"
    /\ UNCHANGED <<atmosphere_gases, npoints, lines_backend, continua_backend,
                   cross_sections_backend, self_grid, cache, output_format,
                   remove_pedestal_arg, pedestal_flag, beta, gas_index, point, calls,
                   unavailable, constructions>>
    /\ UNCHANGED <<raised, site, q, t, result, iso_query, linesState, funcState, ioState>>

NextPairs ==
    \/ PairMechanism
    \/ PairsCombine

SpecPairs == InitPairs /\ [][NextPairs]_vars

(* What block m of the pair (name, at) stores, from the inputs of the      *)
(* point alone: the point, the gases of the atmosphere, the grid, the      *)
(* pedestal flag and the cache entry of the gas.                           *)
MechanismOf(name, at, m) ==
    point_absorption(<<ZeroSlice, ZeroSlice, ZeroSlice>>, only(cache[name], m), name, at,
                     pedestal_flag, "ok", self_grid, GasSet).value[m]

(***************************************************************************)
(* C30: with the (gas, point) pairs processed in any order and their       *)
(* blocks interleaved, the slices of every pair hold at any moment what    *)
(* the blocks of that pair that ran so far compute from the inputs of that *)
(* point alone, and zeros for the blocks that did not run: no block writes *)
(* the slices of another pair or reads them.  The Dataset put together     *)
(* after the last block is the one the loops of the code return.           *)
(***************************************************************************)
C30_PairsIndependent ==
    /\ pc \in {"pairs", "pairs_returned"}
           => \A pair \in DOMAIN progress : \A m \in 1..3 :
                 beta[pair[1]][pair[2]][m] =
                     IF m <= progress[pair] THEN MechanismOf(pair[1], pair[2], m)
                     ELSE ZeroSlice
    /\ pc = "pairs_returned" => output = RunOutput(cache)

(* Two gases and two points in an order the loops of the code never take:  *)
(* the last pair is finished and has absorption, the first pair has run    *)
(* one block and the second pair two.                                      *)
C30_Witness ==
    /\ pc = "pairs"
    /\ Len(atmosphere_gases) = 2 /\ npoints = 2
    /\ progress[<<atmosphere_gases[2], 2>>] = 3
    /\ progress[<<atmosphere_gases[1], 1>>] = 1
    /\ progress[<<atmosphere_gases[1], 2>>] = 2
    /\ \E m \in 1..3 : beta[atmosphere_gases[2]][2][m] # ZeroSlice
    /\ \E m \in 1..3 : beta[atmosphere_gases[1]][2][m] # ZeroSlice

(***************************************************************************)
(* pyLBL/database.py: Database.create.  A row of a table is the pair of    *)
(* the formula of its molecule and the name of the table; session holds    *)
(* the objects added to the Session and not yet committed, tables the rows *)
(* of the database.  A molecule of HITRAN carries the way its downloads    *)
(* end: "ok", or the error that download_transitions or TipsWebApi raises. *)
(*   pc = "db_loop"      in the loop over the molecules                    *)
(*   pc = "db_crossfit"  the first Session is closed                       *)
(*   pc = "db_returned"  create returned                                   *)
(***************************************************************************)
MaxMolecules == 3

HitranFormulas == {"H2O", "CO2", "NO"}

(* Formulas with a file of cross-section coefficients.                     *)
CrossSectionFormulas == {"CFC11", "NO"}

DownloadOutcomes ==
    {"ok", "NoIsotopologueError", "NoTransitionsError", "NoMoleculeError"}

MoleculeTables == {"molecule", "molecule_alias", "isotopologue", "transition", "tips"}

(* _ingest_molecule_metadata, lines 20-34.                                 *)
_ingest_molecule_metadata(sess, mol) == sess \cup {<<mol.formula, "molecule">>}

(* _ingest_molecule_aliases, lines 37-51.                                  *)
_ingest_molecule_aliases(sess, mol) == sess \cup {<<mol.formula, "molecule_alias">>}

(* _ingest_isotopologues, lines 54-77: a molecule without isotopologues    *)
(* adds nothing.                                                           *)
_ingest_isotopologues(sess, mol) ==
    IF mol.outcome = "NoIsotopologueError" THEN sess
    ELSE sess \cup {<<mol.formula, "isotopologue">>}

(* _ingest_transitions, lines 80-106: download_transitions raises before   *)
(* any object is added.                                                    *)
_ingest_transitions(sess, mol) ==
    IF mol.outcome \in {"NoIsotopologueError", "NoTransitionsError"}
    THEN [raised |-> mol.outcome, session |-> sess]
    ELSE [raised |-> "", session |-> sess \cup {<<mol.formula, "transition">>}]

(* _ingest_tips, lines 109-127: TipsWebApi.download raises before any      *)
(* object is added.                                                        *)
_ingest_tips(sess, mol) ==
    IF mol.outcome = "NoMoleculeError"
    THEN [raised |-> mol.outcome, session |-> sess]
    ELSE [raised |-> "", session |-> sess \cup {<<mol.formula, "tips">>}]

(* Session.commit: every object of the session becomes a row.              *)
commit(sess, tabs) == [session |-> {}, tables |-> tabs \cup sess]

(* Database.create, lines 166-168.                                         *)
selected(formula, arg) == arg.is_all \/ formula \in arg.names

(* Database.create, lines 164-202: the body of the loop for one molecule.  *)
create_molecule(sess, tabs, mol, arg) ==
    IF ~selected(mol.formula, arg) THEN [session |-> sess, tables |-> tabs]
    ELSE LET added == _ingest_isotopologues(
                          _ingest_molecule_aliases(
                              _ingest_molecule_metadata(sess, mol), mol), mol)
             tr == _ingest_transitions(added, mol)
             tp == _ingest_tips(tr.session, mol)
         IN  IF tr.raised # "" THEN [session |-> tr.session, tables |-> tabs]
             ELSE IF tp.raised # "" THEN [session |-> tp.session, tables |-> tabs]
             ELSE commit(tp.session, tabs)

(* _ingest_arts_crossfit, lines 225-275, and the commit of line 210: a     *)
(* formula without alias in the database gets a molecule and an alias row, *)
(* every formula the row of its file.                                      *)
_ingest_arts_crossfit(tabs, files, arg) ==
    LET chosen == {f \in files : selected(f, arg)}
    IN  tabs
        \cup {<<f, "molecule">> : f \in {x \in chosen : <<x, "molecule_alias">> \notin tabs}}
        \cup {<<f, "molecule_alias">> : f \in chosen}
        \cup {<<f, "artscrossfit">> : f \in chosen}

(* What download_molecules can return: molecules with distinct formulas.   *)
MoleculeLists ==
    UNION {{seq \in [1..n -> [formula : HitranFormulas, outcome : DownloadOutcomes]] :
               \A a, b \in 1..n : a # b => seq[a].formula # seq[b].formula} :
           n \in 0..MaxMolecules}

MoleculesArguments ==
    {AllMolecules, [is_all |-> FALSE, names |-> {"H2O"}],
     [is_all |-> FALSE, names |-> {"CO2", "NO"}]}

InitDatabase ==
    /\ pc = "db_loop"
    /\ raised = ""
    /\ site = ""
    /\ q = GasTips
    /\ t = 0
    /\ result = <<>>
    /\ mass = <<>>
    /\ transitions = <<>>
    /\ Blank
    /\ iso_query = 0
    /\ BlankAbs
    /\ BlankFunctions
    /\ BlankAtm
    /\ BlankReader
    /\ BlankParser
    /\ BlankPairs
    /\ all_molecules \in MoleculeLists
    /\ molecules_arg \in MoleculesArguments
    /\ mol_index = 0
    /\ session = {}
    /\ tables = {}

(* Database.create, lines 164-202: one pass of the loop.                   *)
CreateMolecule ==
    /\ pc = "db_loop"
    /\ mol_index < Len(all_molecules)
    /\ LET out == create_molecule(session, tables, all_molecules[mol_index + 1],
                                  molecules_arg)
       IN  /\ session' = out.session
           /\ tables' = out.tables
    /\ mol_index' = mol_index + 1
    /\ UNCHANGED <<pc, raised, site, q, t, result, iso_query, linesState, absState,
                   funcState, atmState, readerState, parserState, pairState,
                   all_molecules, molecules_arg>>

(* Database.create, line 161: the with block is left after the last        *)
(* molecule and the Session is closed; what it holds is dropped.           *)
CloseSession ==
    /\ pc = "db_loop"
    /\ mol_index = Len(all_molecules)
    /\ session' = {}
    /\ pc' = "db_crossfit"
    /\ UNCHANGED <<raised, site, q, t, result, iso_query, linesState, absState,
                   funcState, atmState, readerState, parserState, pairState,
                   all_molecules, molecules_arg, mol_index, tables>>

(* Database.create, lines 204-210: the second Session.                     *)
IngestArtsCrossfit ==
    /\ pc = "db_crossfit"
    /\ \E files \in SUBSET CrossSectionFormulas :
          tables' = _ingest_arts_crossfit(tables, files, molecules_arg)
    /\ pc' = "db_returned"
    /\ UNCHANGED <<raised, site, q, t, result, iso_query, linesState, absState,
                   funcState, atmState, readerState, parserState, pairState,
                   all_molecules, molecules_arg, mol_index, session>>

NextDatabase ==
    \/ CreateMolecule
    \/ CloseSession
    \/ IngestArtsCrossfit

SpecDatabase == InitDatabase /\ [][NextDatabase]_vars

(* The rows of the molecule with the formula f in the tables the loop of   *)
(* create fills.                                                           *)
RowsOf(f) == {row \in tables : row[1] = f /\ row[2] \in MoleculeTables}

(* The molecules the loop worked on.                                       *)
Worked ==
    {n \in 1..Len(all_molecules) : selected(all_molecules[n].formula, molecules_arg)}

(* The rows the loop adds to the Session for a molecule before its         *)
(* downloads fail or the commit is reached.                                *)
AddedFor(mol) == create_molecule({}, {}, mol, AllMolecules)

(***************************************************************************)
(* C26 (as stated): after Database.create returned, every molecule its     *)
(* loop worked on is stored as a whole or not at all, whichever downloads  *)
(* failed: a molecule with a row in one of the tables that only the loop   *)
(* fills (isotopologue, transition, tips) has a row in each of the five    *)
(* tables molecule, molecule_alias, isotopologue, transition and tips.     *)
(***************************************************************************)
C26_MoleculeAtomic ==
    pc = "db_returned"
        => \A n \in Worked :
              LET f == all_molecules[n].formula
              IN  (\E row \in RowsOf(f) : row[2] \in {"isotopologue", "transition", "tips"})
                      => RowsOf(f) = {<<f, tb>> : tb \in MoleculeTables}

(* What the code does: a molecule whose downloads succeed is stored whole; *)
(* the rows added for a molecule whose download failed are committed with  *)
(* the next molecule that succeeds and dropped when no molecule after it   *)
(* succeeds.                                                               *)
C26_FailedStoredWithNextSuccess ==
    pc = "db_crossfit"
        => \A n \in Worked :
              LET mol == all_molecules[n]
                  later == \E x \in Worked : x > n /\ all_molecules[x].outcome = "ok"
              IN  RowsOf(mol.formula) =
                      IF mol.outcome = "ok" THEN {<<mol.formula, tb>> : tb \in MoleculeTables}
                      ELSE IF later THEN AddedFor(mol).session
                      ELSE {}

====
